---- MODULE Spec2Model ----
(***************************************************************************)
(* The in-memory inode store of ffs (src/src/fs.rs) and its ingestion from *)
(* a JSON value (src/src/json.rs), as a state machine.                     *)
(*                                                                         *)
(* The inode table `inodes` is a sequence of optional inodes; slot i of    *)
(* the Rust vector is inodes[i + 1].  Every FUSE handler is one operator   *)
(* from (table, request) to (table, reply), and one action applies it;     *)
(* `last` holds the handler that ran last and its reply.  A panic (a       *)
(* failed assert!, an unreachable!() arm, a slice index out of range) is a *)
(* reply of kind "panic"; the session ends there.                          *)
(***************************************************************************)
EXTENDS Integers, Sequences, FiniteSets, TLC

VARIABLES config, inodes, last

vars == <<config, inodes, last>>

(***************************************************************************)
(* Bounds of the model.                                                    *)
(***************************************************************************)
\* longest inode table the model lets mknod/mkdir grow to (slot 0 included)
MaxInodes == 3
\* largest offset, data length and fallocate length a request carries
MaxLen == 1

\* names a request can carry, as the kernel hands them over
Names == {"a", "0", ".", ".."}
\* a name that is not valid UTF-8: OsStr::to_str gives None for it
NotUtf8 == "<not-utf8>"
OsNames == Names \cup {NotUtf8}
\* byte values a write can carry
Bytes == {1}

(***************************************************************************)
(* libc constants.                                                         *)
(***************************************************************************)
S_IFMT == 61440
S_IFREG == 32768
S_IFDIR == 16384
F_OK == 0
X_OK == 1

\* & and >> on non-negative integers
RECURSIVE BitAnd(_, _)
BitAnd(a, b) ==
    IF a = 0 \/ b = 0 THEN 0
    ELSE (a % 2) * (b % 2) + 2 * BitAnd(a \div 2, b \div 2)
\* the shift left out
Shr_NoShift(a, n) == a
Shr(a, n) == a \div (2 ^ n)

(***************************************************************************)
(* fs.rs data model.                                                       *)
(***************************************************************************)
None == [tag |-> "None"]
Some(x) == [tag |-> "Some", val |-> x]

RegularFile == "RegularFile"
Directory == "Directory"
Named == "Named"
List == "List"

Inode(parent, inum, entry) == [parent |-> parent, inum |-> inum, entry |-> entry]
File(contents) == [type |-> "File", contents |-> contents]
Dir(dirtype, files) == [type |-> "Directory", dirtype |-> dirtype, files |-> files]
\* an entry that records every child as a directory
DirEntry_AlwaysDirectory(kind, inum) == [kind |-> Directory, inum |-> inum]
DirEntry(kind, inum) == [kind |-> kind, inum |-> inum]

\* HashMap::new, contains_key, insert, remove
EmptyMap == [n \in {} |-> None]
contains_key(files, name) == name \in DOMAIN files
insert(files, name, de) ==
    [n \in DOMAIN files \cup {name} |-> IF n = name THEN de ELSE files[n]]
\* remove written as clear: every entry goes, not only the named one
remove_Clear(files, name) == [n \in {} |-> files[n]]
remove(files, name) == [n \in DOMAIN files \ {name} |-> files[n]]

Ok(x) == [ok |-> TRUE, val |-> x]
Err(e) == [ok |-> FALSE, err |-> e]

\* FS::get and FS::get_mut
get(t, inum) ==
    IF inum >= Len(t) THEN Err("NoSuchInode")
    ELSE IF t[inum + 1] = None THEN Err("InvalidInode")
    ELSE Ok(t[inum + 1].val)

get_mut(t, inum) ==
    IF inum >= Len(t) THEN Err("NoSuchInode")
    ELSE IF t[inum + 1].tag = "Some" THEN Ok(t[inum + 1].val)
    ELSE Err("InvalidInode")

\* the table with slot inum replaced
SetSlot(t, inum, inode) == [t EXCEPT ![inum + 1] = Some(inode)]

\* fresh_inode with the inum field taken from the length after the push
fresh_inode_StaleInum(t, parent, entry) ==
    LET inum == Len(t)
    IN  [inodes |-> Append(t, Some(Inode(parent, inum + 1, entry))), inum |-> inum]

\* FS::fresh_inode: the table after the push, and the inum handed out
fresh_inode(t, parent, entry) ==
    LET inum == Len(t)
    IN  [inodes |-> Append(t, Some(Inode(parent, inum, entry))), inum |-> inum]

\* Entry::kind
EntryKind(entry) == IF entry.type = "File" THEN RegularFile ELSE Directory

(***************************************************************************)
(* Configuration (read-only after construction) and callers.               *)
(***************************************************************************)
Config(uid, gid, filemode, dirmode, add_newlines, pad_element_names) ==
    [uid |-> uid, gid |-> gid, filemode |-> filemode, dirmode |-> dirmode,
     add_newlines |-> add_newlines, pad_element_names |-> pad_element_names]

\* the mounts the model starts from: owner 1000:1000, modes 0o644 and 0o755
Configs == {Config(1000, 1000, 420, 493, TRUE, TRUE),
            Config(1000, 1000, 420, 493, FALSE, FALSE)}

\* Request::uid and Request::gid of the callers the model lets in
Caller(uid, gid) == [uid |-> uid, gid |-> gid]
Callers == {Caller(1000, 1000), Caller(1001, 1001)}

\* Config::normalize_name: maps a field to a legal file name (spaces to '_')
normalize_name(field) == IF field = "a b" THEN "a_b" ELSE field

(***************************************************************************)
(* serde_json::Value and json.rs.                                          *)
(***************************************************************************)
VNull == [t |-> "Null"]
VBool(b) == [t |-> "Bool", b |-> b]
VNumber(n) == [t |-> "Number", n |-> n]
VString(s) == [t |-> "String", s |-> s]
VArray(vs) == [t |-> "Array", vs |-> vs]
VObject(fvs) == [t |-> "Object", fvs |-> fvs]

\* json::kind
kind(v) == IF v.t \in {"Object", "Array"} THEN Directory ELSE RegularFile

\* size counting the children of a value but not the value itself
size_ChildrenOnly(v) ==
    CASE v.t = "Array" -> Len(v.vs)
      [] v.t = "Object" -> Len(v.fvs)
      [] OTHER -> 1
\* json::size: the number of AST nodes of a value.  The sum over the
\* children vs[lo..hi] is taken by halves, left half first.
RECURSIVE size(_)
RECURSIVE SumSizes(_, _, _)
SumSizes(vs, lo, hi) ==
    IF lo > hi THEN 0
    ELSE IF lo = hi THEN size(vs[lo])
    ELSE LET mid == (lo + hi) \div 2
         IN  SumSizes(vs, lo, mid) + SumSizes(vs, mid + 1, hi)
size(v) ==
    CASE v.t = "Array" -> SumSizes(v.vs, 1, Len(v.vs)) + 1
      [] v.t = "Object" ->
            SumSizes([i \in 1..Len(v.fvs) |-> v.fvs[i][2]], 1, Len(v.fvs)) + 1
      [] OTHER -> 1

\* text as bytes (ASCII codes)
NL == <<10>>
TrueText == <<116, 114, 117, 101>>
FalseText == <<102, 97, 108, 115, 101>>
Digits == <<"0", "1", "2", "3", "4", "5", "6", "7", "8", "9">>

\* format!("{}", i) for an index, and for a number as bytes
RECURSIVE ToDec(_)
ToDec(i) == IF i < 10 THEN Digits[i + 1] ELSE ToDec(i \div 10) \o Digits[(i % 10) + 1]
RECURSIVE ToDecBytes(_)
ToDecBytes(i) ==
    IF i < 10 THEN <<48 + i>> ELSE ToDecBytes(i \div 10) \o <<48 + (i % 10)>>

\* (n as f64).log10().ceil() as usize: the least w with 10^w >= n, 0 for n = 0
\* the width taken as the number of decimal digits of n
RECURSIVE Log10Ceil_Digits(_)
Log10Ceil_Digits(n) == IF n < 10 THEN 1 ELSE 1 + Log10Ceil_Digits(n \div 10)
RECURSIVE Log10Ceil(_)
Log10Ceil(n) == IF n <= 1 THEN 0 ELSE 1 + Log10Ceil((n + 9) \div 10)

\* format!("{:0width$}", i): left-padded with zeros to at least width
RECURSIVE PadZero(_, _)
PadZero(s, width) == IF Len(s) >= width THEN s ELSE PadZero("0" \o s, width)

ElementName(cfg, i, width) ==
    IF cfg.pad_element_names THEN PadZero(ToDec(i), width) ELSE ToDec(i)

\* the normalised name taken as it is, with no loop on a collision
Uniquify_TakeAsIs(children, nfield) == nfield
\* while children.contains_key(&nfield) { nfield.push('_') }
RECURSIVE Uniquify(_, _)
Uniquify(children, nfield) ==
    IF contains_key(children, nfield) THEN Uniquify(children, nfield \o "_") ELSE nfield

\* the for loop over an Array's elements vs[lo..hi], in order: children,
\* worklist and next_id after it.  The range is run by halves, left half
\* first, which is the same sequence of iterations; the test on next_id,
\* which every iteration increments, has the left half evaluated before the
\* right half starts.
RECURSIVE ArrayLoop(_, _, _, _, _, _, _)
ArrayLoop(cfg, vs, lo, hi, width, inum, acc) ==
    IF lo > hi THEN acc
    ELSE IF lo = hi
    THEN LET child == vs[lo]
             name == ElementName(cfg, lo - 1, width)
         IN  [children |-> insert(acc.children, name,
                                  DirEntry(kind(child), acc.next_id)),
              worklist |-> Append(acc.worklist, <<inum, acc.next_id, child>>),
              next_id |-> acc.next_id + 1]
    ELSE LET mid == (lo + hi) \div 2
             left == ArrayLoop(cfg, vs, lo, mid, width, inum, acc)
         IN  IF left.next_id > acc.next_id
             THEN ArrayLoop(cfg, vs, mid + 1, hi, width, inum, left)
             ELSE left

\* the for loop over an Object's fields
RECURSIVE ObjectLoop(_, _, _, _)
ObjectLoop(fvs, i, inum, acc) ==
    IF i > Len(fvs) THEN acc
    ELSE LET child == fvs[i][2]
             nfield == Uniquify(acc.children, normalize_name(fvs[i][1]))
         IN  ObjectLoop(fvs, i + 1, inum,
                 [children |-> insert(acc.children, nfield,
                                      DirEntry(kind(child), acc.next_id)),
                  worklist |-> Append(acc.worklist, <<inum, acc.next_id, child>>),
                  next_id |-> acc.next_id + 1])

\* the match on the popped value: its entry, and the worklist and next_id after it
ValueEntry(cfg, inum, v, worklist, next_id) ==
    LET nl == IF cfg.add_newlines THEN NL ELSE <<>>
        acc0 == [children |-> EmptyMap, worklist |-> worklist, next_id |-> next_id]
        leaf(contents) ==
            [entry |-> File(contents), worklist |-> worklist, next_id |-> next_id]
        dir(dirtype, acc) ==
            [entry |-> Dir(dirtype, acc.children), worklist |-> acc.worklist,
             next_id |-> acc.next_id]
    IN  CASE v.t = "Null" -> leaf(nl)
          [] v.t = "Bool" -> leaf((IF v.b THEN TrueText ELSE FalseText) \o nl)
          [] v.t = "Number" -> leaf(ToDecBytes(v.n) \o nl)
          [] v.t = "String" ->
                leaf(IF Len(v.s) > 0 /\ v.s[Len(v.s)] = 10 THEN v.s ELSE v.s \o nl)
          [] v.t = "Array" ->
                dir(List, ArrayLoop(cfg, v.vs, 1, Len(v.vs), Log10Ceil(Len(v.vs)),
                                    inum, acc0))
          [] v.t = "Object" -> dir(Named, ObjectLoop(v.fvs, 1, inum, acc0))

\* one iteration of the while loop of json::fs: pop the worklist (a stack),
\* build the entry, store the inode; storing out of range panics
WorkStep(cfg, st) ==
    IF st.worklist = <<>> \/ st.panic THEN st
    ELSE LET top == st.worklist[Len(st.worklist)]
             rest == SubSeq(st.worklist, 1, Len(st.worklist) - 1)
             parent == top[1]
             inum == top[2]
             r == ValueEntry(cfg, inum, top[3], rest, st.next_id)
         IN  IF inum >= Len(st.inodes)
             THEN [inodes |-> st.inodes, next_id |-> r.next_id,
                   worklist |-> r.worklist, panic |-> TRUE]
             ELSE [inodes |-> SetSlot(st.inodes, inum, Inode(parent, inum, r.entry)),
                   next_id |-> r.next_id, worklist |-> r.worklist, panic |-> FALSE]

\* the while loop run for at most n iterations, by halves; the loop has
\* ended when the worklist is empty, and a panic ends it at once
RECURSIVE WorkLoop(_, _, _)
WorkLoop(cfg, st, n) ==
    IF n = 0 THEN st
    ELSE IF n = 1 THEN WorkStep(cfg, st)
    ELSE LET half == WorkLoop(cfg, st, n \div 2)
         IN  IF half.panic THEN half ELSE WorkLoop(cfg, half, n - (n \div 2))

\* fuser::FUSE_ROOT_ID
FUSE_ROOT_ID == 1

\* json::fs: the table built from a value; panic if the root is a primitive,
\* a slot index is out of range or the final assert_eq! fails.  Every
\* iteration pops one node of the value, so size(v) + 1 iterations are more
\* than the loop can take; a worklist left non-empty means it has not ended.
fs(cfg, v) ==
    LET t0 == [i \in 1..(size(v) + 1) |-> None]
    IN  IF v.t \notin {"Array", "Object"}
        THEN [inodes |-> t0, next_id |-> FUSE_ROOT_ID, worklist |-> <<>>,
              panic |-> TRUE]
        ELSE LET r == WorkLoop(cfg,
                               [inodes |-> t0, next_id |-> FUSE_ROOT_ID + 1,
                                worklist |-> <<<<FUSE_ROOT_ID, FUSE_ROOT_ID, v>>>>,
                                panic |-> FALSE],
                               size(v) + 1)
             IN  [r EXCEPT !.panic = r.panic \/ r.worklist # <<>>
                                         \/ Len(r.inodes) # r.next_id]

(***************************************************************************)
(* The documents the model ingests.                                        *)
(***************************************************************************)
RootValues ==
    {VObject(<<>>),
     VArray(<<>>),
     VObject(<<<<"a", VNull>>>>),
     VObject(<<<<"a", VObject(<<>>)>>>>),
     VArray(<<VNull>>),
     VArray(<<VArray(<<>>)>>),
     VObject(<<<<"a", VObject(<<<<"0", VNull>>>>)>>>>),
     VObject(<<<<"a", VArray(<<VObject(<<>>)>>)>>>>),
     VArray(<<VObject(<<<<"a", VNull>>>>)>>),
     VObject(<<<<"0", VObject(<<>>)>>, <<"a", VNull>>>>)}

(***************************************************************************)
(* Replies of the FUSE reply objects.                                      *)
(***************************************************************************)
ReplyError(errno) == [kind |-> "error", errno |-> errno]
ReplyOk == [kind |-> "ok"]
ReplyEntry(a) == [kind |-> "entry", attr |-> a]
ReplyWritten(n) == [kind |-> "written", size |-> n]
ReplyData(bytes) == [kind |-> "data", data |-> bytes]
Panic(msg) == [kind |-> "panic", msg |-> msg]

\* what a handler leaves behind: the table and the reply
Result(t, r) == [inodes |-> t, reply |-> r]

\* OsStr::to_str
to_str(name) == IF name = NotUtf8 THEN None ELSE Some(name)

\* FS::check_access
check_access(cfg, caller) == caller.uid = cfg.uid

\* FS::mode
mode_of(cfg, k) == IF k = Directory THEN cfg.dirmode ELSE cfg.filemode

\* the sum of the lengths of a set of names
RECURSIVE SumLen(_)
SumLen(S) == IF S = {} THEN 0 ELSE LET n == CHOOSE n \in S : TRUE IN Len(n) + SumLen(S \ {n})

\* Entry::size
EntrySize(entry) ==
    CASE entry.type = "File" -> Len(entry.contents)
      [] entry.type = "Directory" /\ entry.dirtype = Named -> SumLen(DOMAIN entry.files)
      [] OTHER -> Cardinality(DOMAIN entry.files)

\* FS::attr
attr(cfg, inode) ==
    LET sz == EntrySize(inode.entry)
        k == EntryKind(inode.entry)
        nlink == IF inode.entry.type = "Directory"
                 THEN 2 + Cardinality({n \in DOMAIN inode.entry.files :
                                          inode.entry.files[n].kind = Directory})
                 ELSE 1
    IN  [ino |-> inode.inum, nlink |-> nlink, size |-> sz, blksize |-> 1, blocks |-> sz,
         kind |-> k, uid |-> cfg.uid, gid |-> cfg.gid, perm |-> mode_of(cfg, k),
         rdev |-> 0, flags |-> 0]

\* Vec::resize(len, 0) when it grows, and copy_from_slice at an offset
Zeros(n) == [i \in 1..n |-> 0]
\* the copy aimed at the start of the buffer, whatever the offset
CopyAt_AtStart(contents, offset, data) ==
    [i \in 1..Len(contents) |-> IF i <= Len(data) THEN data[i] ELSE contents[i]]
CopyAt(contents, offset, data) ==
    [i \in 1..Len(contents) |->
        IF i > offset /\ i <= offset + Len(data) THEN data[i - offset] ELSE contents[i]]

(***************************************************************************)
(* The handlers of impl Filesystem for FS that the owner can change the    *)
(* table with.  Each follows its code check by check.                      *)
(***************************************************************************)
\* the tail that links the new inode under the name and once more under "b"
LinkFresh_TwoNames(cfg, t, parent, filename, entry, k) ==
    LET f == fresh_inode(t, parent, entry)
        p == get_mut(f.inodes, parent)
    IN  IF ~p.ok THEN Result(f.inodes, Panic("error finding parent again"))
        ELSE IF p.val.entry.type = "File"
        THEN Result(f.inodes, Panic("parent changed to a regular file"))
        ELSE LET files == insert(insert(p.val.entry.files, filename, DirEntry(k, f.inum)),
                                 "b", DirEntry(k, f.inum))
                 t2 == SetSlot(f.inodes, parent,
                               [p.val EXCEPT !.entry.files = files])
             IN  Result(t2, ReplyEntry(attr(cfg, get(t2, f.inum).val)))

\* the tail shared by mknod and mkdir: allocate, link into the parent, reply
LinkFresh(cfg, t, parent, filename, entry, k) ==
    LET f == fresh_inode(t, parent, entry)
        p == get_mut(f.inodes, parent)
    IN  IF ~p.ok THEN Result(f.inodes, Panic("error finding parent again"))
        ELSE IF p.val.entry.type = "File"
        THEN Result(f.inodes, Panic("parent changed to a regular file"))
        ELSE LET files == insert(p.val.entry.files, filename, DirEntry(k, f.inum))
                 t2 == SetSlot(f.inodes, parent,
                               [p.val EXCEPT !.entry.files = files])
             IN  Result(t2, ReplyEntry(attr(cfg, get(t2, f.inum).val)))

\* the parent checks without the test for a name already there
ParentCheck_NoExists(t, parent, filename) ==
    LET p == get(t, parent)
    IN  IF ~p.ok THEN "ENOENT"
        ELSE IF p.val.entry.type = "File" THEN "ENOTDIR"
        ELSE ""

\* the parent checks shared by mknod and mkdir: an errno, or "" to go on
ParentCheck(t, parent, filename) ==
    LET p == get(t, parent)
    IN  IF ~p.ok THEN "ENOENT"
        ELSE IF p.val.entry.type = "File" THEN "ENOTDIR"
        ELSE IF contains_key(p.val.entry.files, filename) THEN "EEXIST"
        ELSE ""

mknod(cfg, t, caller, parent, name, mode) ==
    LET file_type == BitAnd(mode, S_IFMT)
        filename == to_str(name)
    IN  IF ~check_access(cfg, caller) THEN Result(t, ReplyError("EACCES"))
        ELSE IF file_type \notin {S_IFREG, S_IFDIR} THEN Result(t, ReplyError("ENOSYS"))
        ELSE IF filename = None THEN Result(t, ReplyError("ENOENT"))
        ELSE IF ParentCheck(t, parent, filename.val) # ""
        THEN Result(t, ReplyError(ParentCheck(t, parent, filename.val)))
        ELSE IF file_type = S_IFREG
        THEN LinkFresh(cfg, t, parent, filename.val, File(<<>>), RegularFile)
        ELSE IF file_type # S_IFDIR
        THEN Result(t, Panic("assertion failed: file_type == S_IFDIR"))
        ELSE LinkFresh(cfg, t, parent, filename.val, Dir(Named, EmptyMap), Directory)

\* mkdir making a List directory
mkdir_ListDir(cfg, t, caller, parent, name, mode) ==
    LET filename == to_str(name)
    IN  IF ~check_access(cfg, caller) THEN Result(t, ReplyError("EACCES"))
        ELSE IF filename = None THEN Result(t, ReplyError("ENOENT"))
        ELSE IF ParentCheck(t, parent, filename.val) # ""
        THEN Result(t, ReplyError(ParentCheck(t, parent, filename.val)))
        ELSE LinkFresh(cfg, t, parent, filename.val, Dir(List, EmptyMap), Directory)

mkdir(cfg, t, caller, parent, name, mode) ==
    LET filename == to_str(name)
    IN  IF ~check_access(cfg, caller) THEN Result(t, ReplyError("EACCES"))
        ELSE IF filename = None THEN Result(t, ReplyError("ENOENT"))
        ELSE IF ParentCheck(t, parent, filename.val) # ""
        THEN Result(t, ReplyError(ParentCheck(t, parent, filename.val)))
        ELSE LinkFresh(cfg, t, parent, filename.val, Dir(Named, EmptyMap), Directory)

write(cfg, t, caller, ino, offset, data) ==
    LET file == get_mut(t, ino)
    IN  IF ~(offset >= 0) THEN Result(t, Panic("assertion failed: offset >= 0"))
        ELSE IF ~check_access(cfg, caller) THEN Result(t, ReplyError("EACCES"))
        ELSE IF ~file.ok THEN Result(t, ReplyError("ENOENT"))
        ELSE IF file.val.entry.type = "Directory" THEN Result(t, ReplyError("EISDIR"))
        ELSE LET contents == file.val.entry.contents
                 extra_bytes == (offset + Len(data)) - Len(contents)
                 resized == IF extra_bytes > 0 THEN contents \o Zeros(extra_bytes)
                            ELSE contents
                 written == CopyAt(resized, offset, data)
             IN  Result(SetSlot(t, ino, [file.val EXCEPT !.entry.contents = written]),
                        ReplyWritten(Len(data)))

\* unlink that removes the entry before it looks at the entry's kind
unlink_RemoveFirst(cfg, t, caller, parent, name) ==
    LET filename == to_str(name)
        p == get_mut(t, parent)
    IN  IF ~check_access(cfg, caller) THEN Result(t, ReplyError("EACCES"))
        ELSE IF filename = None THEN Result(t, ReplyError("ENOENT"))
        ELSE IF ~p.ok THEN Result(t, ReplyError("ENOENT"))
        ELSE IF p.val.entry.type = "File" THEN Result(t, ReplyError("ENOTDIR"))
        ELSE LET files == p.val.entry.files
                 removed == SetSlot(t, parent,
                                [p.val EXCEPT !.entry.files = remove(files, filename.val)])
             IN  IF ~(contains_key(files, filename.val)
                      /\ files[filename.val].kind = RegularFile)
                 THEN Result(removed, ReplyError("EPERM"))
                 ELSE Result(removed, ReplyOk)

\* unlink that removes whatever the name refers to, directories included
unlink_AnyKind(cfg, t, caller, parent, name) ==
    LET filename == to_str(name)
        p == get_mut(t, parent)
    IN  IF ~check_access(cfg, caller) THEN Result(t, ReplyError("EACCES"))
        ELSE IF filename = None THEN Result(t, ReplyError("ENOENT"))
        ELSE IF ~p.ok THEN Result(t, ReplyError("ENOENT"))
        ELSE IF p.val.entry.type = "File" THEN Result(t, ReplyError("ENOTDIR"))
        ELSE IF ~contains_key(p.val.entry.files, filename.val)
        THEN Result(t, ReplyError("EPERM"))
        ELSE Result(SetSlot(t, parent,
                        [p.val EXCEPT !.entry.files =
                            remove(p.val.entry.files, filename.val)]),
                    ReplyOk)

\* unlink that also empties the slot of the file it removes
unlink_Tombstone(cfg, t, caller, parent, name) ==
    LET filename == to_str(name)
        p == get_mut(t, parent)
    IN  IF ~check_access(cfg, caller) THEN Result(t, ReplyError("EACCES"))
        ELSE IF filename = None THEN Result(t, ReplyError("ENOENT"))
        ELSE IF ~p.ok THEN Result(t, ReplyError("ENOENT"))
        ELSE IF p.val.entry.type = "File" THEN Result(t, ReplyError("ENOTDIR"))
        ELSE IF ~(contains_key(p.val.entry.files, filename.val)
                  /\ p.val.entry.files[filename.val].kind = RegularFile)
        THEN Result(t, ReplyError("EPERM"))
        ELSE Result([SetSlot(t, parent,
                         [p.val EXCEPT !.entry.files =
                             remove(p.val.entry.files, filename.val)])
                       EXCEPT ![p.val.entry.files[filename.val].inum + 1] = None],
                    ReplyOk)

unlink(cfg, t, caller, parent, name) ==
    LET filename == to_str(name)
        p == get_mut(t, parent)
    IN  IF ~check_access(cfg, caller) THEN Result(t, ReplyError("EACCES"))
        ELSE IF filename = None THEN Result(t, ReplyError("ENOENT"))
        ELSE IF ~p.ok THEN Result(t, ReplyError("ENOENT"))
        ELSE IF p.val.entry.type = "File" THEN Result(t, ReplyError("ENOTDIR"))
        ELSE LET files == p.val.entry.files
             IN  IF ~(contains_key(files, filename.val)
                      /\ files[filename.val].kind = RegularFile)
                 THEN Result(t, ReplyError("EPERM"))
                 ELSE LET removed == SetSlot(t, parent,
                              [p.val EXCEPT !.entry.files = remove(files, filename.val)])
                      IN  IF ~contains_key(files, filename.val)
                          THEN Result(removed, Panic("assertion failed: res.is_some()"))
                          ELSE Result(removed, ReplyOk)

\* rmdir that does not look whether the directory is empty
rmdir_NoEmptyCheck(cfg, t, caller, parent, name) ==
    LET filename == to_str(name)
        p == get(t, parent)
    IN  IF ~check_access(cfg, caller) THEN Result(t, ReplyError("EACCES"))
        ELSE IF filename = None THEN Result(t, ReplyError("ENOENT"))
        ELSE IF ~p.ok THEN Result(t, ReplyError("ENOENT"))
        ELSE IF p.val.entry.type = "File" THEN Result(t, ReplyError("ENOTDIR"))
        ELSE IF ~contains_key(p.val.entry.files, filename.val)
        THEN Result(t, ReplyError("ENOENT"))
        ELSE IF p.val.entry.files[filename.val].kind # Directory
        THEN Result(t, ReplyError("ENOTDIR"))
        ELSE Result(SetSlot(t, parent,
                        [p.val EXCEPT !.entry.files =
                            remove(p.val.entry.files, filename.val)]),
                    ReplyOk)

rmdir(cfg, t, caller, parent, name) ==
    LET filename == to_str(name)
        p == get(t, parent)
    IN  IF ~check_access(cfg, caller) THEN Result(t, ReplyError("EACCES"))
        ELSE IF filename = None THEN Result(t, ReplyError("ENOENT"))
        ELSE IF ~p.ok THEN Result(t, ReplyError("ENOENT"))
        ELSE IF p.val.entry.type = "File" THEN Result(t, ReplyError("ENOTDIR"))
        ELSE LET files == p.val.entry.files
             IN  IF ~contains_key(files, filename.val) THEN Result(t, ReplyError("ENOENT"))
                 ELSE IF files[filename.val].kind # Directory
                 THEN Result(t, ReplyError("ENOTDIR"))
                 ELSE LET inum == files[filename.val].inum
                          d == get(t, inum)
                          again == get_mut(t, parent)
                      IN  IF ~d.ok THEN Result(t, Panic("couldn't find inode"))
                          ELSE IF d.val.entry.type # "Directory"
                          THEN Result(t, Panic("mismatched metadata"))
                          ELSE IF DOMAIN d.val.entry.files # {}
                          THEN Result(t, ReplyError("ENOTEMPTY"))
                          ELSE IF ~again.ok
                          THEN Result(t, Panic("error finding parent again"))
                          ELSE IF again.val.entry.type # "Directory"
                          THEN Result(t, Panic("parent changed to a regular file"))
                          ELSE LET removed == SetSlot(t, parent,
                                       [again.val EXCEPT !.entry.files =
                                           remove(again.val.entry.files, filename.val)])
                               IN  IF ~contains_key(again.val.entry.files, filename.val)
                                   THEN Result(removed,
                                               Panic("assertion failed: res.is_some()"))
                                   ELSE Result(removed, ReplyOk)

\* RenameApply that leaves the moved inode's parent field alone
RenameApply_NoParentUpdate(t, parent, src, newparent, tgt, src_kind, src_inum) ==
    LET p == get_mut(t, parent)
        t1 == SetSlot(t, parent,
                  [p.val EXCEPT !.entry.files = remove(p.val.entry.files, src)])
        np == get_mut(t1, newparent)
    IN  Result(SetSlot(t1, newparent,
                   [np.val EXCEPT !.entry.files =
                       insert(np.val.entry.files, tgt, DirEntry(src_kind, src_inum))]),
               ReplyOk)

\* RenameApply that links the source under the new name without removing
\* the old one
RenameApply_KeepSource(t, parent, src, newparent, tgt, src_kind, src_inum) ==
    LET np == get_mut(t, newparent)
        t1 == SetSlot(t, newparent,
                  [np.val EXCEPT !.entry.files =
                      insert(np.val.entry.files, tgt, DirEntry(src_kind, src_inum))])
        moved == get_mut(t1, src_inum)
    IN  Result(SetSlot(t1, src_inum, [moved.val EXCEPT !.parent = newparent]), ReplyOk)

\* RenameApply that sets the parent field of the source directory, not of the
\* moved inode
RenameApply_WrongInode(t, parent, src, newparent, tgt, src_kind, src_inum) ==
    LET r == RenameApply_NoParentUpdate(t, parent, src, newparent, tgt, src_kind, src_inum)
        dir == get_mut(r.inodes, parent)
    IN  Result(SetSlot(r.inodes, parent, [dir.val EXCEPT !.parent = newparent]), ReplyOk)

\* rename, steps 6 to 8 of its code: remove src from parent, add it as tgt to
\* newparent, set the moved inode's parent
RenameApply(t, parent, src, newparent, tgt, src_kind, src_inum) ==
    LET p == get_mut(t, parent)
    IN  IF ~(p.ok /\ p.val.entry.type = "Directory") THEN Result(t, Panic("parent changed"))
        ELSE
        LET t1 == SetSlot(t, parent,
                      [p.val EXCEPT !.entry.files = remove(p.val.entry.files, src)])
            np == get_mut(t1, newparent)
        IN  IF ~(np.ok /\ np.val.entry.type = "Directory")
            THEN Result(t1, Panic("parent changed"))
            ELSE
            LET t2 == SetSlot(t1, newparent,
                          [np.val EXCEPT !.entry.files =
                              insert(np.val.entry.files, tgt, DirEntry(src_kind, src_inum))])
                moved == get_mut(t2, src_inum)
            IN  IF ~moved.ok THEN Result(t2, Panic("missing inode moved"))
                ELSE Result(SetSlot(t2, src_inum, [moved.val EXCEPT !.parent = newparent]),
                            ReplyOk)

\* rename that does not compare the kinds of source and target
rename_NoKindCheck(cfg, t, caller, parent, name, newparent, newname) ==
    LET src == to_str(name)
        tgt == to_str(newname)
        p == get(t, parent)
        np == get(t, newparent)
    IN  IF ~check_access(cfg, caller) THEN Result(t, ReplyError("EACCES"))
        ELSE IF src = None THEN Result(t, ReplyError("ENOENT"))
        ELSE IF src.val = "." \/ src.val = ".." THEN Result(t, ReplyError("EINVAL"))
        ELSE IF tgt = None THEN Result(t, ReplyError("ENOENT"))
        ELSE IF ~(p.ok /\ p.val.entry.type = "Directory")
        THEN Result(t, ReplyError("ENOENT"))
        ELSE IF ~contains_key(p.val.entry.files, src.val)
        THEN Result(t, ReplyError("ENOENT"))
        ELSE IF ~(np.ok /\ np.val.entry.type = "Directory")
        THEN Result(t, ReplyError("ENOENT"))
        ELSE IF contains_key(np.val.entry.files, tgt.val)
                /\ np.val.entry.files[tgt.val].kind = Directory
                /\ DOMAIN get(t, np.val.entry.files[tgt.val].inum).val.entry.files # {}
        THEN Result(t, ReplyError("ENOTEMPTY"))
        ELSE RenameApply(t, parent, src.val, newparent, tgt.val,
                         p.val.entry.files[src.val].kind,
                         p.val.entry.files[src.val].inum)

rename(cfg, t, caller, parent, name, newparent, newname) ==
    LET src == to_str(name)
        tgt == to_str(newname)
        p == get(t, parent)
        np == get(t, newparent)
    IN  IF ~check_access(cfg, caller) THEN Result(t, ReplyError("EACCES"))
        ELSE IF src = None THEN Result(t, ReplyError("ENOENT"))
        ELSE IF src.val = "." \/ src.val = ".." THEN Result(t, ReplyError("EINVAL"))
        ELSE IF tgt = None THEN Result(t, ReplyError("ENOENT"))
        ELSE IF ~(p.ok /\ p.val.entry.type = "Directory")
        THEN Result(t, ReplyError("ENOENT"))
        ELSE IF ~contains_key(p.val.entry.files, src.val)
        THEN Result(t, ReplyError("ENOENT"))
        ELSE
        LET src_kind == p.val.entry.files[src.val].kind
            src_inum == p.val.entry.files[src.val].inum
        IN  IF ~(np.ok /\ np.val.entry.type = "Directory")
            THEN Result(t, ReplyError("ENOENT"))
            ELSE
            LET tgt_info == IF contains_key(np.val.entry.files, tgt.val)
                            THEN Some(np.val.entry.files[tgt.val]) ELSE None
            IN  IF tgt_info # None /\ tgt_info.val.kind # src_kind
                THEN Result(t, ReplyError("ENOTDIR"))
                ELSE IF tgt_info # None /\ tgt_info.val.kind = Directory
                        /\ ~(get(t, tgt_info.val.inum).ok
                             /\ get(t, tgt_info.val.inum).val.entry.type = "Directory")
                THEN Result(t, Panic("bad metadata"))
                ELSE IF tgt_info # None /\ tgt_info.val.kind = Directory
                        /\ DOMAIN get(t, tgt_info.val.inum).val.entry.files # {}
                THEN Result(t, ReplyError("ENOTEMPTY"))
                ELSE RenameApply(t, parent, src.val, newparent, tgt.val, src_kind, src_inum)

\* fallocate that sets the buffer to offset + length bytes, cutting a longer
\* one short
fallocate_Truncate(cfg, t, caller, ino, offset, length, mode) ==
    LET file == get_mut(t, ino)
    IN  IF offset < 0 \/ length <= 0 THEN Result(t, ReplyError("EINVAL"))
        ELSE IF mode # 0 THEN Result(t, ReplyError("EOPNOTSUPP"))
        ELSE IF ~check_access(cfg, caller) THEN Result(t, ReplyError("EACCES"))
        ELSE IF ~file.ok THEN Result(t, ReplyError("ENODEV"))
        ELSE IF file.val.entry.type = "Directory" THEN Result(t, ReplyError("EBADF"))
        ELSE LET contents == file.val.entry.contents
                 extra_bytes == (offset + length) - Len(contents)
                 resized == IF extra_bytes > 0 THEN contents \o Zeros(extra_bytes)
                            ELSE SubSeq(contents, 1, offset + length)
             IN  Result(SetSlot(t, ino, [file.val EXCEPT !.entry.contents = resized]),
                        ReplyOk)

fallocate(cfg, t, caller, ino, offset, length, mode) ==
    LET file == get_mut(t, ino)
    IN  IF offset < 0 \/ length <= 0 THEN Result(t, ReplyError("EINVAL"))
        ELSE IF mode # 0 THEN Result(t, ReplyError("EOPNOTSUPP"))
        ELSE IF ~check_access(cfg, caller) THEN Result(t, ReplyError("EACCES"))
        ELSE IF ~file.ok THEN Result(t, ReplyError("ENODEV"))
        ELSE IF file.val.entry.type = "Directory" THEN Result(t, ReplyError("EBADF"))
        ELSE LET contents == file.val.entry.contents
                 extra_bytes == (offset + length) - Len(contents)
                 resized == IF extra_bytes > 0 THEN contents \o Zeros(extra_bytes)
                            ELSE contents
             IN  Result(SetSlot(t, ino, [file.val EXCEPT !.entry.contents = resized]),
                        ReplyOk)

(***************************************************************************)
(* Read-side handlers.                                                     *)
(***************************************************************************)
access(cfg, t, caller, ino, mask) ==
    LET inode == get(t, ino)
        mode == attr(cfg, inode.val).perm
        m0 == BitAnd(mask, X_OK)
        m1 == m0 - BitAnd(m0, Shr(mode, 6))
        m2 == m1 - BitAnd(m1, Shr(mode, 3))
        left == IF caller.uid = 0 THEN m2 - BitAnd(m2, mode)
                ELSE IF caller.uid = cfg.uid THEN mask - BitAnd(mask, Shr(mode, 6))
                ELSE IF caller.gid = cfg.gid THEN mask - BitAnd(mask, Shr(mode, 3))
                ELSE mask - BitAnd(mask, mode)
    IN  IF mask = F_OK THEN Result(t, ReplyOk)
        ELSE IF ~inode.ok THEN Result(t, ReplyError("ENOENT"))
        ELSE IF left = 0 THEN Result(t, ReplyOk)
        ELSE Result(t, ReplyError("EACCES"))

ReplyAttr(a) == [kind |-> "attr", attr |-> a]

getattr(cfg, t, ino) ==
    LET file == get(t, ino)
    IN  IF ~file.ok THEN Result(t, ReplyError("ENOENT"))
        ELSE Result(t, ReplyAttr(attr(cfg, file.val)))

\* ReplyDirectory: the entries added before ok; each is (ino, next offset,
\* kind, name)
ReplyDirectory(entries) == [kind |-> "dir", entries |-> entries]
DirRecord(ino, offset, k, name) ==
    [ino |-> ino, offset |-> offset, kind |-> k, name |-> name]

\* readdir tagging each entry with its 0-based position
readdir_ZeroBased(t, ino, offset, order, capacity) ==
    LET inode == get(t, ino)
    IN  IF ~inode.ok THEN Result(t, ReplyError("ENOENT"))
        ELSE IF inode.val.entry.type = "File" THEN Result(t, ReplyError("ENOTDIR"))
        ELSE LET files == inode.val.entry.files
                 all == <<<<ino, Directory, ".">>, <<inode.val.parent, Directory, "..">>>>
                            \o [k \in 1..Len(order) |->
                                   <<files[order[k]].inum, files[order[k]].kind, order[k]>>]
                 left == IF offset < 0 \/ offset >= Len(all) THEN 0 ELSE Len(all) - offset
                 n == IF left < capacity THEN left ELSE capacity
             IN  Result(t, ReplyDirectory(
                     [j \in 1..n |-> DirRecord(all[offset + j][1], offset + j - 1,
                                                all[offset + j][2], all[offset + j][3])]))

\* readdir.  order is the sequence in which files.iter() yields the names of
\* the directory: any order, the same for as long as the map is not changed.
\* capacity is the number of entries the reply buffer takes before add()
\* reports it full.  A negative offset, cast to usize, skips every entry.
readdir(t, ino, offset, order, capacity) ==
    LET inode == get(t, ino)
    IN  IF ~inode.ok THEN Result(t, ReplyError("ENOENT"))
        ELSE IF inode.val.entry.type = "File" THEN Result(t, ReplyError("ENOTDIR"))
        ELSE LET files == inode.val.entry.files
                 all == <<<<ino, Directory, ".">>, <<inode.val.parent, Directory, "..">>>>
                            \o [k \in 1..Len(order) |->
                                   <<files[order[k]].inum, files[order[k]].kind, order[k]>>]
                 left == IF offset < 0 \/ offset >= Len(all) THEN 0 ELSE Len(all) - offset
                 n == IF left < capacity THEN left ELSE capacity
             IN  Result(t, ReplyDirectory(
                     [j \in 1..n |-> DirRecord(all[offset + j][1], offset + j,
                                                all[offset + j][2], all[offset + j][3])]))

read(cfg, t, caller, ino, offset) ==
    LET file == get(t, ino)
    IN  IF ~file.ok THEN Result(t, ReplyError("ENOENT"))
        ELSE IF file.val.entry.type # "File" THEN Result(t, ReplyError("ENOENT"))
        ELSE IF offset < 0 \/ offset > Len(file.val.entry.contents)
        THEN Result(t, Panic("range start index out of range for slice"))
        ELSE Result(t, ReplyData(SubSeq(file.val.entry.contents, offset + 1,
                                        Len(file.val.entry.contents))))

lookup(cfg, t, parent, name) ==
    LET dir == get(t, parent)
        filename == to_str(name)
    IN  IF ~dir.ok THEN Result(t, ReplyError("ENOENT"))
        ELSE IF filename = None THEN Result(t, ReplyError("ENOENT"))
        ELSE IF dir.val.entry.type # "Directory" THEN Result(t, ReplyError("ENOTDIR"))
        ELSE IF ~contains_key(dir.val.entry.files, filename.val)
        THEN Result(t, ReplyError("ENOENT"))
        ELSE LET file == get(t, dir.val.entry.files[filename.val].inum)
             IN  IF ~file.ok THEN Result(t, ReplyError("ENOENT"))
                 ELSE Result(t, ReplyEntry(attr(cfg, file.val)))

ReplyStatfs(blocks, bfree, bavail, files, ffree, bsize, namelen, frsize) ==
    [kind |-> "statfs", blocks |-> blocks, bfree |-> bfree, bavail |-> bavail,
     files |-> files, ffree |-> ffree, bsize |-> bsize, namelen |-> namelen,
     frsize |-> frsize]
ReplyOpened(fh, flags) == [kind |-> "opened", fh |-> fh, flags |-> flags]
\* forget and destroy send no reply
NoReply == [kind |-> "noreply"]

statfs(t, ino) == Result(t, ReplyStatfs(0, 0, 0, 0, 0, 1, 255, 0))

\* a write-back that also empties every slot no directory entry refers to
sync_Reclaim(t) ==
    [i \in 1..Len(t) |->
        IF i > 2 /\ ~\E d \in 2..Len(t) :
                        /\ t[d] # None
                        /\ t[d].val.entry.type = "Directory"
                        /\ \E x \in DOMAIN t[d].val.entry.files :
                              t[d].val.entry.files[x].inum = i - 1
        THEN None ELSE t[i]]

\* FS::sync borrows the file system immutably (&self) and hands the same
\* shared borrow to the serializer: the table is read, never written
sync(t) == t

destroy(t) == Result(sync(t), NoReply)
fsync(t, ino) == Result(sync(t), ReplyOk)
forget(t, ino) == Result(t, NoReply)
open(t, ino) == Result(t, ReplyOpened(0, 0))
opendir(t, ino) == Result(t, ReplyOpened(0, 0))
release(t, ino) == Result(t, ReplyOk)
releasedir(t, ino) == Result(t, ReplyOk)

\* the handlers that ignore every argument and reply ENOSYS
create(t) == Result(t, ReplyError("ENOSYS"))
copy_file_range(t) == Result(t, ReplyError("ENOSYS"))
ioctl(t) == Result(t, ReplyError("ENOSYS"))
setattr(t) == Result(t, ReplyError("ENOSYS"))
readlink(t) == Result(t, ReplyError("ENOSYS"))
symlink(t) == Result(t, ReplyError("ENOSYS"))
link(t) == Result(t, ReplyError("ENOSYS"))
flush(t) == Result(t, ReplyError("ENOSYS"))
readdirplus(t) == Result(t, ReplyError("ENOSYS"))
fsyncdir(t) == Result(t, ReplyError("ENOSYS"))
setxattr(t) == Result(t, ReplyError("ENOSYS"))
getxattr(t) == Result(t, ReplyError("ENOSYS"))
listxattr(t) == Result(t, ReplyError("ENOSYS"))
removexattr(t) == Result(t, ReplyError("ENOSYS"))
getlk(t) == Result(t, ReplyError("ENOSYS"))
setlk(t) == Result(t, ReplyError("ENOSYS"))
bmap(t) == Result(t, ReplyError("ENOSYS"))
lseek(t) == Result(t, ReplyError("ENOSYS"))

(***************************************************************************)
(* The session: the transport hands over one request at a time, the        *)
(* handler runs to completion, and the reply goes out before the next      *)
(* request.  A panic ends the session.                                     *)
(***************************************************************************)
Inums(t) == 0..Len(t)
Offsets == 0..MaxLen
Datas == {<<>>} \cup {<<b>> : b \in Bytes}
\* S_IFREG | 0o644, S_IFDIR | 0o755, S_IFIFO | 0o644
MknodModes == {S_IFREG + 420, S_IFDIR + 493, 4096 + 420}
\* 0o755 and 0o700
MkdirModes == {493, 448}
Masks == 0..7
AccessCallers == Callers \cup {Caller(0, 0), Caller(1001, 1000)}

Idle == [op |-> "none", reply |-> [kind |-> "none"]]

Init ==
    /\ config \in Configs
    /\ \E v \in RootValues : ~fs(config, v).panic /\ inodes = fs(config, v).inodes
    /\ last = Idle

\* the handler's result becomes the state
Handle(op, res) ==
    /\ inodes' = res.inodes
    /\ last' = [op |-> op, reply |-> res.reply]
    /\ UNCHANGED config

Mknod ==
    /\ last = Idle
    /\ Len(inodes) < MaxInodes
    /\ \E c \in Callers, parent \in Inums(inodes), name \in OsNames, mode \in MknodModes :
          Handle("mknod", mknod(config, inodes, c, parent, name, mode))

Mkdir ==
    /\ last = Idle
    /\ Len(inodes) < MaxInodes
    /\ \E c \in Callers, parent \in Inums(inodes), name \in OsNames, mode \in MkdirModes :
          Handle("mkdir", mkdir(config, inodes, c, parent, name, mode))

Write ==
    /\ last = Idle
    /\ \E c \in Callers, ino \in Inums(inodes), offset \in Offsets, data \in Datas :
          /\ offset + Len(data) <= MaxLen
          /\ Handle("write", write(config, inodes, c, ino, offset, data))

Unlink ==
    /\ last = Idle
    /\ \E c \in Callers, parent \in Inums(inodes), name \in OsNames :
          Handle("unlink", unlink(config, inodes, c, parent, name))

Rmdir ==
    /\ last = Idle
    /\ \E c \in Callers, parent \in Inums(inodes), name \in OsNames :
          Handle("rmdir", rmdir(config, inodes, c, parent, name))

Rename ==
    /\ last = Idle
    /\ \E c \in Callers, parent \in Inums(inodes), name \in OsNames,
          newparent \in Inums(inodes), newname \in OsNames :
          Handle("rename", rename(config, inodes, c, parent, name, newparent, newname))

Fallocate ==
    /\ last = Idle
    /\ \E c \in Callers, ino \in Inums(inodes), offset \in -1..MaxLen,
          length \in -1..MaxLen, mode \in {0, 1} :
          /\ offset + length <= MaxLen
          /\ Handle("fallocate", fallocate(config, inodes, c, ino, offset, length, mode))

Access ==
    /\ last = Idle
    /\ \E c \in AccessCallers, ino \in Inums(inodes), mask \in Masks :
          Handle("access", access(config, inodes, c, ino, mask))

Read ==
    /\ last = Idle
    /\ \E c \in Callers, ino \in Inums(inodes), offset \in 0..(MaxLen + 1) :
          Handle("read", read(config, inodes, c, ino, offset))

\* the reply has gone out; the transport hands over the next request
NextRequest ==
    /\ last # Idle
    /\ last.reply.kind # "panic"
    /\ last' = Idle
    /\ UNCHANGED <<config, inodes>>

Next ==
    \/ Mknod
    \/ Mkdir
    \/ Write
    \/ Unlink
    \/ Rmdir
    \/ Rename
    \/ Fallocate
    \/ Access
    \/ Read
    \/ NextRequest

Spec == Init /\ [][Next]_vars

(***************************************************************************)
(* Vocabulary of the properties.                                           *)
(***************************************************************************)
Slot(t, i) == t[i + 1]
IsLive(t, i) == i \in 0..(Len(t) - 1) /\ Slot(t, i) # None
LiveDirs(t) == {i \in 0..(Len(t) - 1) : IsLive(t, i) /\ Slot(t, i).val.entry.type = "Directory"}
LiveFiles(t) == {i \in 0..(Len(t) - 1) : IsLive(t, i) /\ Slot(t, i).val.entry.type = "File"}
FilesOf(t, i) == Slot(t, i).val.entry.files
Owner == Caller(config.uid, config.gid)
NonOwners == {c \in Callers : c.uid # config.uid}
Succeeded(op) == last.op = op /\ last.reply.kind \in {"ok", "entry", "written"}

(***************************************************************************)
(* C1: every entry (name, {kind, inum}) of every live directory P refers   *)
(* to a live inode whose parent field is P and whose entry type is kind.   *)
(***************************************************************************)
C1_EntriesConsistent ==
    \A P \in LiveDirs(inodes) : \A name \in DOMAIN FilesOf(inodes, P) :
        LET de == FilesOf(inodes, P)[name]
        IN  /\ IsLive(inodes, de.inum)
            /\ Slot(inodes, de.inum).val.parent = P
            /\ EntryKind(Slot(inodes, de.inum).val.entry) = de.kind

\* a rename has just succeeded and a directory other than the root holds an entry
C1_Witness ==
    /\ Succeeded("rename")
    /\ \E P \in LiveDirs(inodes) \ {1} : \E name \in DOMAIN FilesOf(inodes, P) :
          Slot(inodes, FilesOf(inodes, P)[name].inum).val.parent = P

(***************************************************************************)
(* C2: slot 0 is None, slot 1 is a live Directory whose parent field is 1, *)
(* and no directory entry refers to inum 1.                                *)
(***************************************************************************)
C2_RootFixed ==
    /\ Len(inodes) >= 2
    /\ Slot(inodes, 0) = None
    /\ 1 \in LiveDirs(inodes)
    /\ Slot(inodes, 1).val.parent = 1
    /\ \A P \in LiveDirs(inodes) : \A name \in DOMAIN FilesOf(inodes, P) :
          FilesOf(inodes, P)[name].inum # 1

\* a rename has just succeeded that left the root without children while
\* another directory holds a directory entry
C2_Witness ==
    /\ Succeeded("rename")
    /\ \E P \in LiveDirs(inodes) \ {1} : \E name \in DOMAIN FilesOf(inodes, P) :
          /\ FilesOf(inodes, P)[name].kind = Directory
          /\ DOMAIN FilesOf(inodes, 1) = {}

(***************************************************************************)
(* C3: no directory's child map contains the name "." or "..".             *)
(***************************************************************************)
C3_NoDotEntries ==
    \A P \in LiveDirs(inodes) :
        "." \notin DOMAIN FilesOf(inodes, P) /\ ".." \notin DOMAIN FilesOf(inodes, P)

(***************************************************************************)
(* C4: a handler that replies an errno leaves the inode table as it was.   *)
(***************************************************************************)
C4_ErrorsAtomic == [][last'.reply.kind = "error" => inodes' = inodes]_vars

\* rmdir of a non-empty directory has just replied ENOTEMPTY
C4_Witness == last.op = "rmdir" /\ last.reply = ReplyError("ENOTEMPTY")

(***************************************************************************)
(* C5: every mutating request of a caller whose uid is not config.uid      *)
(* replies EACCES and leaves the table unchanged, whatever its arguments.  *)
(***************************************************************************)
C5_NonOwnerEACCES ==
    last = Idle =>
        \A c \in NonOwners, ino \in Inums(inodes), name \in OsNames :
            LET denied == Result(inodes, ReplyError("EACCES"))
            IN  /\ \A mode \in MknodModes : mknod(config, inodes, c, ino, name, mode) = denied
                /\ \A mode \in MkdirModes : mkdir(config, inodes, c, ino, name, mode) = denied
                /\ \A offset \in Offsets, data \in Datas :
                      write(config, inodes, c, ino, offset, data) = denied
                /\ unlink(config, inodes, c, ino, name) = denied
                /\ rmdir(config, inodes, c, ino, name) = denied
                /\ \A newparent \in Inums(inodes), newname \in OsNames :
                      rename(config, inodes, c, ino, name, newparent, newname) = denied
                /\ \A offset \in -1..MaxLen, length \in -1..MaxLen, mode \in {0, 1} :
                      fallocate(config, inodes, c, ino, offset, length, mode) = denied

(***************************************************************************)
(* C6: every live slot i holds an inode whose inum field is i (so          *)
(* attr(get(i)).ino = i); a successful mknod or mkdir returns the table    *)
(* length before the request and grows the table by exactly one; no other  *)
(* step changes the table length.                                          *)
(***************************************************************************)
SlotsNumbered(t) ==
    \A i \in 0..(Len(t) - 1) :
        IsLive(t, i) => Slot(t, i).val.inum = i /\ attr(config, get(t, i).val).ino = i

C7_AccessFOK ==
    last = Idle =>
        \A c \in AccessCallers, ino \in Inums(inodes) :
            (access(config, inodes, c, ino, F_OK).reply = ReplyOk) <=> get(inodes, ino).ok

(***************************************************************************)
(* C8: read on a regular file replies the bytes from offset to the end     *)
(* (empty at or past the end) for every offset >= 0 and never aborts; read *)
(* on a directory or a missing inode replies ENOENT.                       *)
(***************************************************************************)
C8_ReadNeverAborts ==
    last = Idle =>
        \A c \in Callers, ino \in Inums(inodes), offset \in 0..(MaxLen + 1) :
            LET r == read(config, inodes, c, ino, offset).reply
            IN  IF ino \in LiveFiles(inodes)
                THEN LET contents == Slot(inodes, ino).val.entry.contents
                     IN  r = ReplyData(SubSeq(contents, offset + 1, Len(contents)))
                ELSE r = ReplyError("ENOENT")

(***************************************************************************)
(* C9: for every entry n of every directory p, rename(p, n, p, n) by the   *)
(* owner replies ok and leaves the table unchanged.                        *)
(***************************************************************************)
C9_RenameSameIsNoop ==
    last = Idle =>
        \A p \in LiveDirs(inodes) : \A n \in DOMAIN FilesOf(inodes, p) :
            rename(config, inodes, Owner, p, n, p, n) = Result(inodes, ReplyOk)

(***************************************************************************)
(* C10: rename by the owner replies EINVAL and leaves the table unchanged  *)
(* whenever name or newname is "." or "..".                                *)
(***************************************************************************)
C10_RenameDotEINVAL ==
    last = Idle =>
        \A parent \in Inums(inodes), newparent \in Inums(inodes),
           name \in Names, newname \in Names :
            (name \in {".", ".."} \/ newname \in {".", ".."}) =>
                rename(config, inodes, Owner, parent, name, newparent, newname)
                    = Result(inodes, ReplyError("EINVAL"))

(***************************************************************************)
(* C11: for every directory p and valid name x not in p, mkdir(p, x) and   *)
(* then rmdir(p, x) by the owner both succeed; p's child map, and every    *)
(* slot the table had, are as before, and the table is one slot longer:    *)
(* the new slot holds the removed directory, which no entry refers to.     *)
(***************************************************************************)
C11_MkdirRmdirRestores ==
    last = Idle =>
        \A p \in LiveDirs(inodes), mode \in MkdirModes :
            \A x \in Names \ DOMAIN FilesOf(inodes, p) :
                LET r1 == mkdir(config, inodes, Owner, p, x, mode)
                    r2 == rmdir(config, r1.inodes, Owner, p, x)
                    n == Len(inodes)
                IN  /\ r1.reply.kind = "entry"
                    /\ r1.reply.attr.ino = n
                    /\ x \in DOMAIN FilesOf(r1.inodes, p)
                    /\ r2.reply = ReplyOk
                    /\ FilesOf(r2.inodes, p) = FilesOf(inodes, p)
                    /\ Len(r2.inodes) = n + 1
                    /\ SubSeq(r2.inodes, 1, n) = inodes
                    /\ \A d \in LiveDirs(r2.inodes) :
                           \A y \in DOMAIN FilesOf(r2.inodes, d) :
                               FilesOf(r2.inodes, d)[y].inum # n

\* rmdir has just removed the newest directory: its slot, the last of the
\* table, holds an empty Named directory that no entry refers to
C11_Witness ==
    /\ last.op = "rmdir" /\ last.reply = ReplyOk
    /\ LET n == Len(inodes) - 1
       IN  /\ n \in LiveDirs(inodes)
           /\ DOMAIN FilesOf(inodes, n) = {}
           /\ Slot(inodes, n).val.entry.dirtype = Named
           /\ \A d \in LiveDirs(inodes) : \A y \in DOMAIN FilesOf(inodes, d) :
                  FilesOf(inodes, d)[y].inum # n

(***************************************************************************)
(* C12: in every List directory with k children the names are the decimal  *)
(* indices 0..k-1, all padded with zeros to one common width, whatever     *)
(* requests have been served.                                              *)
(***************************************************************************)
C12_ListNamesAreIndices ==
    \A d \in LiveDirs(inodes) :
        Slot(inodes, d).val.entry.dirtype = List =>
            LET names == DOMAIN FilesOf(inodes, d)
                k == Cardinality(names)
            IN  \E w \in 0..3 : names = {PadZero(ToDec(i), w) : i \in 0..(k - 1)}

(***************************************************************************)
(* Ingestion on its own: json::fs applied once to a document, primitives   *)
(* and long arrays included.  Before the call the table is Vec::new().     *)
(***************************************************************************)
MaxArrayLen == 101
NullArray(n) == VArray([i \in 1..n |-> VNull])
\* fields that collide after normalisation, in every order
CollidingFields == {"a b", "a_b", "a_b_", "a"}
FieldSeqs ==
    {s \in UNION {[1..k -> CollidingFields] : k \in 0..3} :
        \A i \in DOMAIN s, j \in DOMAIN s : i # j => s[i] # s[j]}
ObjectOf(s, v) == VObject([i \in 1..Len(s) |-> <<s[i], v>>])
\* null, true, false, 42, "hi", "hi\n"
ScalarValues ==
    {VNull, VBool(TRUE), VBool(FALSE), VNumber(42), VString(<<104, 105>>),
     VString(<<104, 105, 10>>)}
NestedValues ==
    {VArray(<<VNull, VBool(TRUE), VBool(FALSE), VNumber(42),
              VString(<<104, 105>>), VString(<<104, 105, 10>>)>>),
     VArray(<<VArray(<<VArray(<<VArray(<<>>)>>)>>)>>),
     VArray(<<VArray(<<VNull, VNull>>), VObject(<<<<"a", VArray(<<VNull>>)>>>>)>>),
     VObject(<<<<"a b", VObject(<<<<"a b", VNumber(7)>>, <<"a_b", VArray(<<>>)>>>>)>>,
               <<"a_b", NullArray(11)>>>>)}
IngestValues ==
    {NullArray(n) : n \in 0..MaxArrayLen}
        \cup {ObjectOf(s, VNull) : s \in FieldSeqs}
        \cup {ObjectOf(s, VObject(<<>>)) : s \in FieldSeqs}
        \cup RootValues \cup NestedValues \cup ScalarValues

InitIngest ==
    /\ config \in Configs
    /\ inodes = <<>>
    /\ last = Idle

\* one call of json::fs: the table it leaves, the value it was given, and
\* whether it panicked
Ingest ==
    /\ last = Idle
    /\ \E v \in IngestValues :
          LET r == fs(config, v)
          IN  /\ inodes' = r.inodes
              /\ last' = [op |-> "fs", value |-> v,
                          reply |-> IF r.panic THEN Panic("json::fs")
                                    ELSE [kind |-> "fs", next_id |-> r.next_id]]
    /\ UNCHANGED config

SpecIngest == InitIngest /\ [][Ingest]_vars

\* the index i written with exactly w digits, for w in 1..3
IndexName(i, w) ==
    CASE w = 1 -> Digits[i + 1]
      [] w = 2 -> Digits[(i \div 10) + 1] \o Digits[(i % 10) + 1]
      [] w = 3 -> Digits[(i \div 100) + 1] \o Digits[((i \div 10) % 10) + 1]
                      \o Digits[(i % 10) + 1]
\* a root array of n elements has just been ingested with padding on
PaddedArray(n) ==
    /\ last.op = "fs" /\ last.reply.kind = "fs"
    /\ config.pad_element_names
    /\ last.value.t = "Array" /\ Len(last.value.vs) = n
\* child i of the root has the name IndexName(i, w), for every i below n
RootNamesHaveWidth(n, w) ==
    /\ DOMAIN FilesOf(inodes, FUSE_ROOT_ID) = {IndexName(i, w) : i \in 0..(n - 1)}
    /\ \A i \in 0..(n - 1) :
          FilesOf(inodes, FUSE_ROOT_ID)[IndexName(i, w)].inum = FUSE_ROOT_ID + 1 + i

(***************************************************************************)
(* C13 as stated: with padding on, an array of length 3 gets the names     *)
(* "0","1","2" (width 1) and an array of length 100 gets names of width 3  *)
(* ("000","001",...).                                                      *)
(***************************************************************************)
C13_Width3For100 ==
    /\ PaddedArray(3) => RootNamesHaveWidth(3, 1)
    /\ PaddedArray(100) => RootNamesHaveWidth(100, 3)

(***************************************************************************)
(* C13, amended: with padding on, child i of an array of length n is named *)
(* by the decimal i left-padded with zeros to one common width, which is   *)
(* the least w >= 1 with 10^w >= n: width 1 for length 3 and width 2 for   *)
(* length 100 ("00","01",...,"99"); width 3 starts at length 101.          *)
(***************************************************************************)
C13_PadWidth ==
    \A n \in 0..MaxArrayLen :
        PaddedArray(n) =>
            RootNamesHaveWidth(n, IF n <= 10 THEN 1 ELSE IF n <= 100 THEN 2 ELSE 3)

\* an array of length 100 has been ingested with padding on: its first and
\* last children are "00" and "99"
C13_Witness ==
    /\ PaddedArray(100)
    /\ {"00", "99"} \subseteq DOMAIN FilesOf(inodes, FUSE_ROOT_ID)

\* s followed by j underscores
RECURSIVE WithUnderscores(_, _)
WithUnderscores(s, j) == IF j = 0 THEN s ELSE WithUnderscores(s \o "_", j - 1)
\* a root object has just been ingested
IngestedObject == last.op = "fs" /\ last.reply.kind = "fs" /\ last.value.t = "Object"

(***************************************************************************)
(* C14: ingesting an Object with k fields gives a Named directory with     *)
(* exactly k entries under pairwise distinct names; the entry of field i   *)
(* is named normalize_name(field) followed by zero or more '_' and has an  *)
(* inode of its own, of the kind of the field's value.  No field is lost   *)
(* when normalised names collide.                                          *)
(***************************************************************************)
C14_ObjectFieldsKept ==
    IngestedObject =>
        LET fvs == last.value.fvs
            k == Len(fvs)
            root == Slot(inodes, FUSE_ROOT_ID).val.entry
            files == root.files
        IN  /\ root.type = "Directory" /\ root.dirtype = Named
            /\ Cardinality(DOMAIN files) = k
            /\ Cardinality({files[n].inum : n \in DOMAIN files}) = k
            /\ \A i \in 1..k :
                  \E j \in 0..k :
                      LET name == WithUnderscores(normalize_name(fvs[i][1]), j)
                      IN  /\ name \in DOMAIN files
                          /\ files[name] = DirEntry(kind(fvs[i][2]), FUSE_ROOT_ID + i)
                          /\ IsLive(inodes, FUSE_ROOT_ID + i)

\* the object {"a b": null, "a_b": null} has been ingested: both fields are
\* there, as "a_b" and "a_b_"
C14_Witness ==
    /\ IngestedObject
    /\ last.value = ObjectOf(<<"a b", "a_b">>, VNull)
    /\ DOMAIN FilesOf(inodes, FUSE_ROOT_ID) = {"a_b", "a_b_"}

\* the number of scalar nodes of a value (the rest are arrays and objects)
RECURSIVE CountScalars(_)
RECURSIVE SumScalars(_, _, _)
SumScalars(vs, lo, hi) ==
    IF lo > hi THEN 0
    ELSE IF lo = hi THEN CountScalars(vs[lo])
    ELSE LET mid == (lo + hi) \div 2
         IN  SumScalars(vs, lo, mid) + SumScalars(vs, mid + 1, hi)
CountScalars(v) ==
    CASE v.t = "Array" -> SumScalars(v.vs, 1, Len(v.vs))
      [] v.t = "Object" ->
            SumScalars([i \in 1..Len(v.fvs) |-> v.fvs[i][2]], 1, Len(v.fvs))
      [] OTHER -> 1

(***************************************************************************)
(* C15: for every Array or Object root with N nodes, json::fs ends without *)
(* a panic (no store out of range, final assert_eq! true) and leaves a     *)
(* table of length N + 1 whose slot 0 is None and whose slots 1..N are     *)
(* all Some, each holding the inode of its own index; the next inum to     *)
(* hand out equals the table length; there is one File inode per scalar    *)
(* node and one Directory inode per array or object node.                  *)
(***************************************************************************)
C15_IngestFillsTable ==
    (last.op = "fs" /\ last.value.t \in {"Array", "Object"}) =>
        LET N == size(last.value)
        IN  /\ last.reply.kind = "fs"
            /\ Len(inodes) = N + 1
            /\ last.reply.next_id = Len(inodes)
            /\ inodes[1] = None
            /\ \A i \in 1..N : IsLive(inodes, i) /\ Slot(inodes, i).val.inum = i
            /\ Cardinality(LiveFiles(inodes)) = CountScalars(last.value)
            /\ Cardinality(LiveDirs(inodes)) = N - CountScalars(last.value)

\* a nested document, an array four levels deep with an empty array at the
\* bottom, has been ingested
C15_Witness ==
    /\ last.op = "fs" /\ last.reply.kind = "fs"
    /\ last.value = VArray(<<VArray(<<VArray(<<VArray(<<>>)>>)>>)>>)
    /\ Len(inodes) = 5
    /\ Slot(inodes, 4).val.parent = 3

\* the messages of the unreachable!() arms and of the assertions on the
\* handlers' own bookkeeping
InternalChecks ==
    {"error finding parent again", "parent changed to a regular file",
     "couldn't find inode", "mismatched metadata", "bad metadata",
     "parent changed", "missing inode moved",
     "assertion failed: res.is_some()", "assertion failed: file_type == S_IFDIR"}

(***************************************************************************)
(* C16: no sequence of requests makes a handler run into one of its        *)
(* unreachable!() arms or fail an assertion on the removal of an entry it  *)
(* has just looked up.                                                     *)
(***************************************************************************)
C16_InternalChecksHold ==
    last.reply.kind = "panic" => last.reply.msg \notin InternalChecks

\* a rename has gone through all its checks on a directory that holds an
\* entry for itself (it was moved into itself before)
C16_Witness ==
    /\ last.op = "rename" /\ last.reply = ReplyOk
    /\ \E d \in LiveDirs(inodes) \ {1} :
          /\ Slot(inodes, d).val.parent = d
          /\ \E n \in DOMAIN FilesOf(inodes, d) : FilesOf(inodes, d)[n].inum = d

(***************************************************************************)
(* C17: a successful rename(parent, name, newparent, newname) with         *)
(* (parent, name) # (newparent, newname) leaves parent without name,       *)
(* newparent mapping newname to the source's original {kind, inum}, and    *)
(* the moved inode's parent field equal to newparent; every other entry of *)
(* every directory, every other inode's parent field, every directory's    *)
(* type and every file's contents are as before.                           *)
(***************************************************************************)
C17_RenameFrame ==
    last = Idle =>
        \A parent \in Inums(inodes), newparent \in Inums(inodes),
           name \in Names, newname \in Names :
            LET r == rename(config, inodes, Owner, parent, name, newparent, newname)
                t == r.inodes
            IN  (r.reply = ReplyOk /\ <<parent, name>> # <<newparent, newname>>) =>
                    LET src == FilesOf(inodes, parent)[name]
                    IN  /\ name \notin DOMAIN FilesOf(t, parent)
                        /\ newname \in DOMAIN FilesOf(t, newparent)
                        /\ FilesOf(t, newparent)[newname] = src
                        /\ Slot(t, src.inum).val.parent = newparent
                        /\ Len(t) = Len(inodes)
                        /\ \A i \in 0..(Len(t) - 1) :
                              /\ IsLive(t, i) <=> IsLive(inodes, i)
                              /\ IsLive(inodes, i) =>
                                    LET old == Slot(inodes, i).val
                                        new == Slot(t, i).val
                                    IN  /\ new.inum = old.inum
                                        /\ new.entry.type = old.entry.type
                                        /\ i # src.inum => new.parent = old.parent
                                        /\ old.entry.type = "File" => new.entry = old.entry
                                        /\ old.entry.type = "Directory" =>
                                              /\ new.entry.dirtype = old.entry.dirtype
                                              /\ \A n \in (DOMAIN old.entry.files
                                                             \cup DOMAIN new.entry.files) :
                                                    (<<i, n>> \notin {<<parent, name>>,
                                                                     <<newparent, newname>>}) =>
                                                        /\ n \in DOMAIN old.entry.files
                                                        /\ n \in DOMAIN new.entry.files
                                                        /\ new.entry.files[n] = old.entry.files[n]

\* a file has just been moved out of the root into a directory, where an
\* entry refers to it and its parent field names that directory
C17_Witness ==
    /\ last.op = "rename" /\ last.reply = ReplyOk
    /\ \E f \in LiveFiles(inodes) :
          LET P == Slot(inodes, f).val.parent
          IN  /\ P # 1
              /\ P \in LiveDirs(inodes)
              /\ \E n \in DOMAIN FilesOf(inodes, P) :
                    FilesOf(inodes, P)[n] = DirEntry(RegularFile, f)
              /\ \A n \in DOMAIN FilesOf(inodes, 1) : FilesOf(inodes, 1)[n].inum # f

\* the data and offsets write is tried with: up to two bytes, at offsets
\* up to one past the longest file
WriteDatas == UNION {[1..k -> {1, 2}] : k \in 0..2}
WriteOffsets == 0..(MaxLen + 1)

(***************************************************************************)
(* C18: write(ino, offset, data) by the owner on a file replies len(data)  *)
(* and leaves the file with length max(old length, offset + len(data)),    *)
(* the bytes of [offset, offset + len(data)) equal to data, the bytes      *)
(* below the old length and outside that range as before, and the bytes    *)
(* from the old length up to offset zero; nothing else changes, and the    *)
(* same write again changes nothing.  On a directory write replies EISDIR. *)
(***************************************************************************)
C18_WriteEffect ==
    last = Idle =>
        \A ino \in Inums(inodes), offset \in WriteOffsets, data \in WriteDatas :
            LET r == write(config, inodes, Owner, ino, offset, data)
            IN  /\ ino \in LiveDirs(inodes) => r = Result(inodes, ReplyError("EISDIR"))
                /\ ino \in LiveFiles(inodes) =>
                      LET old == Slot(inodes, ino).val.entry.contents
                          new == Slot(r.inodes, ino).val.entry.contents
                          end == offset + Len(data)
                      IN  /\ r.reply = ReplyWritten(Len(data))
                          /\ Len(new) = IF Len(old) >= end THEN Len(old) ELSE end
                          /\ \A i \in 1..Len(new) :
                                new[i] = IF i > offset /\ i <= end THEN data[i - offset]
                                         ELSE IF i <= Len(old) THEN old[i]
                                         ELSE 0
                          /\ r.inodes = SetSlot(inodes, ino,
                                            Inode(Slot(inodes, ino).val.parent, ino, File(new)))
                          /\ write(config, r.inodes, Owner, ino, offset, data) = r

\* a write of one byte has been served and a file holds that byte
C18_Witness ==
    /\ last.op = "write" /\ last.reply = ReplyWritten(1)
    /\ \E f \in LiveFiles(inodes) : Slot(inodes, f).val.entry.contents = <<1>>

(***************************************************************************)
(* Permission checks on their own: mounts with other owners and modes,     *)
(* serving access requests only.                                           *)
(***************************************************************************)
\* 0o000, 0o007, 0o070, 0o111, 0o124, 0o242, 0o421, 0o644, 0o700, 0o755
AccessModes == {0, 7, 56, 73, 84, 162, 273, 420, 448, 493}
AccessConfigs ==
    {Config(uid, 1000, filemode, dirmode, TRUE, TRUE) :
        uid \in {0, 1000}, filemode \in AccessModes, dirmode \in AccessModes}
AccessIds == {0, 1000, 1001}
AllCallers == {Caller(uid, gid) : uid \in AccessIds, gid \in AccessIds}

InitAccess ==
    /\ config \in AccessConfigs
    /\ \E v \in RootValues : ~fs(config, v).panic /\ inodes = fs(config, v).inodes
    /\ last = Idle

NextAccess ==
    \/ Access
    \/ NextRequest

SpecAccess == InitAccess /\ [][NextAccess]_vars

\* the permission triad k of a mode (2 owner, 1 group, 0 other) and the
\* test of one bit b (1 execute, 2 write, 4 read) of a triad or mask
Triad(perm, k) == (perm \div (8 ^ k)) % 8
HasBit(bits, b) == (bits \div b) % 2 = 1
\* what the claim grants: to uid 0 everything but execute, and execute if any
\* triad has the execute bit; to others what the triad of their identity has
Granted(cfg, caller, perm, mask) ==
    IF caller.uid = 0
    THEN HasBit(mask, 1) => \E k \in 0..2 : HasBit(Triad(perm, k), 1)
    ELSE LET triad == IF caller.uid = cfg.uid THEN Triad(perm, 2)
                      ELSE IF caller.gid = cfg.gid THEN Triad(perm, 1)
                      ELSE Triad(perm, 0)
         IN  \A b \in {1, 2, 4} : HasBit(mask, b) => HasBit(triad, b)

(***************************************************************************)
(* C19: access(ino, mask) with a mask of R, W, X bits other than F_OK      *)
(* replies ENOENT for a missing inode; for an existing one it replies ok   *)
(* exactly when every requested bit is granted, and EACCES otherwise.      *)
(* uid 0 is checked for execute only, granted iff some execute bit is set  *)
(* in the owner, group or other triad; else a caller with uid = config.uid *)
(* is checked against the owner triad, else one with gid = config.gid      *)
(* against the group triad, else against the other triad.  The table is    *)
(* left as it is.                                                          *)
(***************************************************************************)
C19_AccessTriads ==
    last = Idle =>
        \A c \in AllCallers, ino \in Inums(inodes), mask \in 1..7 :
            LET r == access(config, inodes, c, ino, mask)
            IN  /\ r.inodes = inodes
                /\ r.reply =
                      IF ~IsLive(inodes, ino) THEN ReplyError("ENOENT")
                      ELSE LET perm == IF Slot(inodes, ino).val.entry.type = "Directory"
                                       THEN config.dirmode ELSE config.filemode
                           IN  IF Granted(config, c, perm, mask) THEN ReplyOk
                               ELSE ReplyError("EACCES")

\* an access request has been denied on a mount whose files are 0o124
C19_Witness ==
    /\ last.op = "access" /\ last.reply = ReplyError("EACCES")
    /\ config.filemode = 84
    /\ LiveFiles(inodes) # {}

\* S_IFREG | 0o644, S_IFDIR | 0o755, S_IFIFO | 0o644, S_IFLNK | 0o777,
\* S_IFREG with no permission bits
MknodModesTried == MknodModes \cup {40960 + 511, S_IFREG}
\* the file-type bits of a mode, by division
TypeBits(mode) == ((mode \div 4096) % 16) * 4096
\* what mknod(parent, name, mode) by the owner is to do on the table t, r
\* being what it did; utf8rule says whether a name that is not UTF-8 is
\* answered ENOENT after the file-type check
MknodAsStated(t, r, parent, name, mode, utf8rule) ==
    LET n == Len(t)
        reg == TypeBits(mode) = S_IFREG
        fails(errno) == r = Result(t, ReplyError(errno))
    IN  IF TypeBits(mode) \notin {S_IFREG, S_IFDIR} THEN fails("ENOSYS")
        ELSE IF utf8rule /\ name = NotUtf8 THEN fails("ENOENT")
        ELSE IF ~IsLive(t, parent) THEN fails("ENOENT")
        ELSE IF parent \in LiveFiles(t) THEN fails("ENOTDIR")
        ELSE IF name \in DOMAIN FilesOf(t, parent) THEN fails("EEXIST")
        ELSE /\ Len(r.inodes) = n + 1
             /\ Slot(r.inodes, n) =
                   Some(Inode(parent, n, IF reg THEN File(<<>>) ELSE Dir(Named, EmptyMap)))
             /\ DOMAIN FilesOf(r.inodes, parent) = DOMAIN FilesOf(t, parent) \cup {name}
             /\ FilesOf(r.inodes, parent)[name] =
                   [kind |-> IF reg THEN RegularFile ELSE Directory, inum |-> n]
             /\ \A x \in DOMAIN FilesOf(t, parent) :
                   FilesOf(r.inodes, parent)[x] = FilesOf(t, parent)[x]
             /\ \A i \in 0..(n - 1) :
                   IF i = parent
                   THEN /\ Slot(r.inodes, i).val.parent = Slot(t, i).val.parent
                        /\ Slot(r.inodes, i).val.entry.dirtype = Slot(t, i).val.entry.dirtype
                   ELSE Slot(r.inodes, i) = Slot(t, i)
             /\ r.reply = ReplyEntry(attr(config, Slot(r.inodes, n).val))
             /\ r.reply.attr.ino = n

(***************************************************************************)
(* C20 as stated: mknod by the owner replies ENOSYS for a file type other  *)
(* than S_IFREG and S_IFDIR (before the parent is looked at), ENOENT for a *)
(* missing parent, ENOTDIR for a parent that is a file, EEXIST for a name  *)
(* already in the parent; otherwise, whatever the name, it allocates one   *)
(* fresh empty inode with parent field parent, adds the one entry for it,  *)
(* leaves the other entries alone and replies the new attributes.          *)
(***************************************************************************)
C20_MknodAnyName ==
    last = Idle =>
        \A parent \in Inums(inodes), name \in OsNames, mode \in MknodModesTried :
            MknodAsStated(inodes, mknod(config, inodes, Owner, parent, name, mode),
                          parent, name, mode, FALSE)

(***************************************************************************)
(* C20, amended: as stated for every name that is valid UTF-8; a name that *)
(* is not valid UTF-8 is answered ENOENT right after the file-type check,  *)
(* whatever the parent is, and the table is left as it is.                 *)
(***************************************************************************)
C20_Mknod ==
    last = Idle =>
        \A parent \in Inums(inodes), name \in OsNames, mode \in MknodModesTried :
            MknodAsStated(inodes, mknod(config, inodes, Owner, parent, name, mode),
                          parent, name, mode, TRUE)

\* mknod has just made a file: the last slot is an empty file and its
\* parent holds the entry for it
C20_Witness ==
    /\ last.op = "mknod" /\ last.reply.kind = "entry"
    /\ LET n == Len(inodes) - 1
       IN  /\ last.reply.attr.ino = n
           /\ Slot(inodes, n).val.entry = File(<<>>)
           /\ \E x \in DOMAIN FilesOf(inodes, Slot(inodes, n).val.parent) :
                 FilesOf(inodes, Slot(inodes, n).val.parent)[x] = DirEntry(RegularFile, n)

(***************************************************************************)
(* C21: for every caller, parent, name and mode, mkdir(parent, name, mode) *)
(* and mknod(parent, name, S_IFDIR | perm) give the same reply and the     *)
(* same table, whatever mode and perm are.                                 *)
(***************************************************************************)
C21_MkdirIsMknodDir ==
    last = Idle =>
        \A c \in Callers, parent \in Inums(inodes), name \in OsNames,
           mode \in MkdirModes \cup {0}, perm \in {0, 448, 493} :
            mkdir(config, inodes, c, parent, name, mode)
                = mknod(config, inodes, c, parent, name, S_IFDIR + perm)

\* mknod with S_IFDIR has just made a directory: the last slot is an empty
\* Named directory that its parent has an entry for
C21_Witness ==
    /\ last.op = "mknod" /\ last.reply.kind = "entry"
    /\ LET n == Len(inodes) - 1
       IN  /\ last.reply.attr.ino = n
           /\ Slot(inodes, n).val.entry = Dir(Named, EmptyMap)
           /\ \E x \in DOMAIN FilesOf(inodes, Slot(inodes, n).val.parent) :
                 FilesOf(inodes, Slot(inodes, n).val.parent)[x] = DirEntry(Directory, n)

\* r leaves the table t as it is but for the entry name of directory parent,
\* which is gone
OnlyEntryRemoved(t, r, parent, name) ==
    /\ Len(r.inodes) = Len(t)
    /\ DOMAIN FilesOf(r.inodes, parent) = DOMAIN FilesOf(t, parent) \ {name}
    /\ \A x \in DOMAIN FilesOf(r.inodes, parent) :
          FilesOf(r.inodes, parent)[x] = FilesOf(t, parent)[x]
    /\ \A i \in 0..(Len(t) - 1) :
          IF i = parent
          THEN /\ Slot(r.inodes, i).val.parent = Slot(t, i).val.parent
               /\ Slot(r.inodes, i).val.inum = Slot(t, i).val.inum
               /\ Slot(r.inodes, i).val.entry.dirtype = Slot(t, i).val.entry.dirtype
          ELSE Slot(r.inodes, i) = Slot(t, i)

\* what unlink(parent, name) by the owner is to do on the table t, r being
\* what it did; utf8rule says whether a name that is not UTF-8 is answered
\* ENOENT before the parent is looked at
UnlinkAsStated(t, r, parent, name, utf8rule) ==
    LET fails(errno) == r = Result(t, ReplyError(errno))
    IN  IF utf8rule /\ name = NotUtf8 THEN fails("ENOENT")
        ELSE IF ~IsLive(t, parent) THEN fails("ENOENT")
        ELSE IF parent \in LiveFiles(t) THEN fails("ENOTDIR")
        ELSE IF name \notin DOMAIN FilesOf(t, parent) THEN fails("EPERM")
        ELSE IF FilesOf(t, parent)[name].kind = Directory THEN fails("EPERM")
        ELSE r.reply = ReplyOk /\ OnlyEntryRemoved(t, r, parent, name)

(***************************************************************************)
(* C22 as stated: unlink by the owner replies ENOENT for a missing parent, *)
(* ENOTDIR for a parent that is a file, EPERM for a name that is absent    *)
(* from the parent or names a directory, each time leaving the table as it *)
(* is; for a regular-file entry it replies ok and removes exactly that     *)
(* entry, changing nothing else.                                           *)
(***************************************************************************)
C22_UnlinkAnyName ==
    last = Idle =>
        \A parent \in Inums(inodes), name \in OsNames :
            UnlinkAsStated(inodes, unlink(config, inodes, Owner, parent, name),
                           parent, name, FALSE)

(***************************************************************************)
(* C22, amended: as stated for every name that is valid UTF-8; a name that *)
(* is not valid UTF-8 is answered ENOENT before the parent is looked at,   *)
(* and the table is left as it is.                                         *)
(***************************************************************************)
C22_Unlink ==
    last = Idle =>
        \A parent \in Inums(inodes), name \in OsNames :
            UnlinkAsStated(inodes, unlink(config, inodes, Owner, parent, name),
                           parent, name, TRUE)

\* unlink has just removed a file's entry: some file is in no directory
C22_Witness ==
    /\ last.op = "unlink" /\ last.reply = ReplyOk
    /\ \E f \in LiveFiles(inodes) :
          \A d \in LiveDirs(inodes) : \A x \in DOMAIN FilesOf(inodes, d) :
              FilesOf(inodes, d)[x].inum # f

\* what rmdir(parent, name) by the owner is to do on the table t, r being
\* what it did; utf8rule says whether a name that is not UTF-8 is answered
\* ENOENT before the parent is looked at
RmdirAsStated(t, r, parent, name, utf8rule) ==
    LET fails(errno) == r = Result(t, ReplyError(errno))
    IN  IF utf8rule /\ name = NotUtf8 THEN fails("ENOENT")
        ELSE IF ~IsLive(t, parent) THEN fails("ENOENT")
        ELSE IF parent \in LiveFiles(t) THEN fails("ENOTDIR")
        ELSE IF name \notin DOMAIN FilesOf(t, parent) THEN fails("ENOENT")
        ELSE IF FilesOf(t, parent)[name].kind = RegularFile THEN fails("ENOTDIR")
        ELSE IF DOMAIN FilesOf(t, FilesOf(t, parent)[name].inum) # {}
        THEN fails("ENOTEMPTY")
        ELSE r.reply = ReplyOk /\ OnlyEntryRemoved(t, r, parent, name)

(***************************************************************************)
(* C23 as stated: rmdir by the owner replies ENOENT for a missing parent,  *)
(* ENOTDIR for a parent that is a file, ENOENT for a name absent from the  *)
(* parent, ENOTDIR for a regular-file entry, ENOTEMPTY for a directory     *)
(* with at least one child, each time leaving the table as it is; for an   *)
(* empty directory it replies ok and removes exactly that entry.           *)
(***************************************************************************)
C23_RmdirAnyName ==
    last = Idle =>
        \A parent \in Inums(inodes), name \in OsNames :
            RmdirAsStated(inodes, rmdir(config, inodes, Owner, parent, name),
                          parent, name, FALSE)

(***************************************************************************)
(* C23, amended: as stated for every name that is valid UTF-8; a name that *)
(* is not valid UTF-8 is answered ENOENT before the parent is looked at    *)
(* (so also when the parent is a file), and the table is left as it is.    *)
(***************************************************************************)
C23_Rmdir ==
    last = Idle =>
        \A parent \in Inums(inodes), name \in OsNames :
            RmdirAsStated(inodes, rmdir(config, inodes, Owner, parent, name),
                          parent, name, TRUE)

\* rmdir has just removed an empty directory's entry: some empty directory
\* other than the root is in no directory
C23_Witness ==
    /\ last.op = "rmdir" /\ last.reply = ReplyOk
    /\ \E e \in LiveDirs(inodes) \ {1} :
          /\ DOMAIN FilesOf(inodes, e) = {}
          /\ \A d \in LiveDirs(inodes) : \A x \in DOMAIN FilesOf(inodes, d) :
                FilesOf(inodes, d)[x].inum # e

\* what rename(parent, name, newparent, newname) by the owner is to reply on
\* the table t, r being what it did; dotrule says whether the source names
\* "." and ".." are answered EINVAL before anything is looked up
RenameAsStated(t, r, parent, name, newparent, newname, dotrule) ==
    LET dirs == parent \in LiveDirs(t) /\ newparent \in LiveDirs(t)
        srcThere == dirs /\ name \in DOMAIN FilesOf(t, parent)
        tgtThere == srcThere /\ newname \in DOMAIN FilesOf(t, newparent)
        src == FilesOf(t, parent)[name]
        tgt == FilesOf(t, newparent)[newname]
        replies(errno) == r.reply = ReplyError(errno)
    IN  IF dotrule /\ name \in {".", ".."} THEN replies("EINVAL")
        ELSE /\ ~srcThere => replies("ENOENT")
             /\ (tgtThere /\ tgt.kind # src.kind) => replies("ENOTDIR")
             /\ (tgtThere /\ tgt.kind = src.kind /\ tgt.kind = Directory
                     /\ DOMAIN FilesOf(t, tgt.inum) # {}) => replies("ENOTEMPTY")
             /\ (tgtThere /\ r.reply = ReplyOk) =>
                    /\ tgt.kind = src.kind
                    /\ tgt.kind = Directory => DOMAIN FilesOf(t, tgt.inum) = {}
                    /\ FilesOf(r.inodes, newparent)[newname] = src

(***************************************************************************)
(* C24 as stated: rename by the owner replies ENOENT when the source name  *)
(* is absent from parent or parent or newparent is not a live directory,   *)
(* ENOTDIR when (newparent, newname) exists with a kind other than the     *)
(* source's, ENOTEMPTY when it exists as a directory with a child; it      *)
(* overwrites an existing target only if that has the source's kind and,   *)
(* being a directory, is empty.                                            *)
(***************************************************************************)
C24_RenameAnyName ==
    last = Idle =>
        \A parent \in Inums(inodes), newparent \in Inums(inodes),
           name \in OsNames, newname \in OsNames :
            RenameAsStated(inodes,
                rename(config, inodes, Owner, parent, name, newparent, newname),
                parent, name, newparent, newname, FALSE)

(***************************************************************************)
(* C24, amended: as stated for every source name other than "." and "..";  *)
(* for these two source names rename replies EINVAL, whatever parent,      *)
(* newparent and newname are.                                              *)
(***************************************************************************)
C24_Rename ==
    last = Idle =>
        \A parent \in Inums(inodes), newparent \in Inums(inodes),
           name \in OsNames, newname \in OsNames :
            RenameAsStated(inodes,
                rename(config, inodes, Owner, parent, name, newparent, newname),
                parent, name, newparent, newname, TRUE)

\* a rename onto a directory that has a child has just been refused
C24_Witness ==
    /\ last.op = "rename" /\ last.reply = ReplyError("ENOTEMPTY")
    /\ \E d \in LiveDirs(inodes) \ {1} : DOMAIN FilesOf(inodes, d) # {}

(***************************************************************************)
(* C25: fallocate(ino, offset, length, mode) replies EINVAL when           *)
(* offset < 0 or length <= 0, else EOPNOTSUPP when mode # 0, for any       *)
(* caller; for the owner it then replies ENODEV when the inode is missing  *)
(* and EBADF when it is a directory; all these leave the table as it is.   *)
(* Otherwise it replies ok and the file's buffer has length                *)
(* max(old length, offset + length), its first old-length bytes as before  *)
(* and zeros after them; no other slot changes and no buffer gets shorter. *)
(***************************************************************************)
C25_Fallocate ==
    last = Idle =>
        \A c \in Callers, ino \in Inums(inodes), offset \in -1..(MaxLen + 1),
           length \in -1..(MaxLen + 1), mode \in {0, 1, 3} :
            LET r == fallocate(config, inodes, c, ino, offset, length, mode)
                fails(errno) == r = Result(inodes, ReplyError(errno))
            IN  IF offset < 0 \/ length <= 0 THEN fails("EINVAL")
                ELSE IF mode # 0 THEN fails("EOPNOTSUPP")
                ELSE c = Owner =>
                    IF ~IsLive(inodes, ino) THEN fails("ENODEV")
                    ELSE IF ino \in LiveDirs(inodes) THEN fails("EBADF")
                    ELSE LET old == Slot(inodes, ino).val.entry.contents
                             new == Slot(r.inodes, ino).val.entry.contents
                             end == offset + length
                         IN  /\ r.reply = ReplyOk
                             /\ Len(new) = IF Len(old) >= end THEN Len(old) ELSE end
                             /\ Len(new) >= Len(old)
                             /\ \A i \in 1..Len(new) :
                                   new[i] = IF i <= Len(old) THEN old[i] ELSE 0
                             /\ r.inodes = SetSlot(inodes, ino,
                                    Inode(Slot(inodes, ino).val.parent, ino, File(new)))

\* fallocate has just grown a file: the reply is ok and a file ends in a
\* zero byte
C25_Witness ==
    /\ last.op = "fallocate" /\ last.reply = ReplyOk
    /\ \E f \in LiveFiles(inodes) :
          LET contents == Slot(inodes, f).val.entry.contents
          IN  Len(contents) > 0 /\ contents[Len(contents)] = 0

(***************************************************************************)
(* File buffers on their own: mounts whose files already hold a few bytes, *)
(* serving write and fallocate requests only.                              *)
(***************************************************************************)
\* {"a": "hi"}, {"a": "hi", "0": ""}, ["hi", null], {"a": {"0": "hi\n"}}
BufferValues ==
    {VObject(<<<<"a", VString(<<104, 105>>)>>>>),
     VObject(<<<<"a", VString(<<104, 105>>)>>, <<"0", VString(<<>>)>>>>),
     VArray(<<VString(<<104, 105>>), VNull>>),
     VObject(<<<<"a", VObject(<<<<"0", VString(<<104, 105, 10>>)>>>>)>>>>)}

InitBuffers ==
    /\ config \in Configs
    /\ \E v \in BufferValues : ~fs(config, v).panic /\ inodes = fs(config, v).inodes
    /\ last = Idle

NextBuffers ==
    \/ Write
    \/ Fallocate
    \/ NextRequest

SpecBuffers == InitBuffers /\ [][NextBuffers]_vars

(***************************************************************************)
(* Listing a directory: one directory of an unchanged table is read with   *)
(* readdir from offset 0, each call continuing from the last next offset   *)
(* it was given, until a call returns nothing.  The caller keeps calling.  *)
(***************************************************************************)
\* {"a": null, "0": {}, "b": [null]} and {"a": {"a": null, "0": null}}
ReaddirValues ==
    RootValues \cup
        {VObject(<<<<"a", VNull>>, <<"0", VObject(<<>>)>>, <<"b", VArray(<<VNull>>)>>>>),
         VObject(<<<<"a", VObject(<<<<"a", VNull>>, <<"0", VNull>>>>)>>>>)}
\* the reply buffer takes this many entries
Capacities == {1, 2, 5}
\* the orders in which a map with the keys S can be iterated
Orders(S) ==
    {s \in [1..Cardinality(S) -> S] : \A i \in DOMAIN s, j \in DOMAIN s : i # j => s[i] # s[j]}
\* the orders of inode ino's map; a file or a missing inode has no map
OrdersOf(t, ino) == IF ino \in LiveDirs(t) THEN Orders(DOMAIN FilesOf(t, ino)) ELSE {<<>>}

InitReaddir ==
    /\ config \in Configs
    /\ \E v \in ReaddirValues : ~fs(config, v).panic /\ inodes = fs(config, v).inodes
    /\ last = Idle

\* the first call, at offset 0
ReaddirFirst ==
    /\ last = Idle
    /\ \E ino \in Inums(inodes), capacity \in Capacities :
          \E order \in OrdersOf(inodes, ino) :
              LET r == readdir(inodes, ino, 0, order, capacity)
              IN  /\ inodes' = r.inodes
                  /\ last' = [op |-> "readdir", reply |-> r.reply, ino |-> ino,
                              order |-> order, calls |-> 1,
                              got |-> IF r.reply.kind = "dir" THEN r.reply.entries
                                      ELSE <<>>]
    /\ UNCHANGED config

\* a further call, at the next offset of the last entry received
ReaddirNext ==
    /\ last.op = "readdir"
    /\ last.reply.kind = "dir"
    /\ last.reply.entries # <<>>
    /\ \E capacity \in Capacities :
          LET offset == last.reply.entries[Len(last.reply.entries)].offset
              r == readdir(inodes, last.ino, offset, last.order, capacity)
          IN  /\ inodes' = r.inodes
              /\ last' = [last EXCEPT !.reply = r.reply, !.calls = @ + 1,
                                      !.got = @ \o r.reply.entries]
    /\ UNCHANGED config

NextReaddir ==
    \/ ReaddirFirst
    \/ ReaddirNext

SpecReaddir == InitReaddir /\ [][NextReaddir]_vars /\ WF_vars(ReaddirNext)

\* the whole listing of directory ino: ".", "..", then the children in the
\* map's order, each tagged with its 1-based position
Listing(t, ino, order) ==
    [k \in 1..(Len(order) + 2) |->
        IF k = 1 THEN DirRecord(ino, 1, Directory, ".")
        ELSE IF k = 2 THEN DirRecord(Slot(t, ino).val.parent, 2, Directory, "..")
        ELSE DirRecord(FilesOf(t, ino)[order[k - 2]].inum, k,
                       FilesOf(t, ino)[order[k - 2]].kind, order[k - 2])]
Listed == last.op = "readdir" /\ last.reply.kind = "dir"
ListingEnded == Listed /\ last.reply.entries = <<>>

(***************************************************************************)
(* C26: readdir on a missing inode replies ENOENT and on a file ENOTDIR.   *)
(* On a directory, what the calls made so far have returned is an initial  *)
(* part of the listing ".", "..", children, each entry tagged with its     *)
(* 1-based position; a call that returns nothing comes only when the whole *)
(* listing has been returned, every entry once; and such a call does come, *)
(* whatever the capacity (at least one entry) of each reply.               *)
(***************************************************************************)
C26_ReaddirPaging ==
    /\ [](last.op = "readdir" =>
            /\ ~IsLive(inodes, last.ino) => last.reply = ReplyError("ENOENT")
            /\ last.ino \in LiveFiles(inodes) => last.reply = ReplyError("ENOTDIR")
            /\ last.ino \in LiveDirs(inodes) =>
                  LET all == Listing(inodes, last.ino, last.order)
                  IN  /\ Listed
                      /\ Len(last.got) <= Len(all)
                      /\ last.got = SubSeq(all, 1, Len(last.got))
                      /\ ListingEnded => last.got = all)
    /\ Listed ~> ListingEnded

\* a listing of a directory with three children has ended after at least
\* three calls
C26_Witness ==
    /\ ListingEnded
    /\ Len(last.got) = 5
    /\ last.calls >= 3

\* the inums that some entry of some live directory of t refers to
Referenced(t) ==
    UNION {{FilesOf(t, d)[x].inum : x \in DOMAIN FilesOf(t, d)} : d \in LiveDirs(t)}
\* getattr of inode i, and for a file also read at every offset within it,
\* write and fallocate by the owner, reply with success
StillServed(t, i) ==
    /\ getattr(config, t, i).reply = ReplyAttr(attr(config, Slot(t, i).val))
    /\ i \in LiveFiles(t) =>
          LET contents == Slot(t, i).val.entry.contents
          IN  /\ \A offset \in 0..Len(contents) :
                    read(config, t, Owner, i, offset).reply
                        = ReplyData(SubSeq(contents, offset + 1, Len(contents)))
              /\ \A data \in Datas : write(config, t, Owner, i, 0, data).reply
                                         = ReplyWritten(Len(data))
              /\ fallocate(config, t, Owner, i, 0, 1, 0).reply = ReplyOk

(***************************************************************************)
(* C27: in every reachable state every slot with index >= 1 is Some, and   *)
(* getattr, read, write and fallocate on it succeed whether or not an      *)
(* entry still refers to it.  No step empties a slot, changes the type of  *)
(* an inode or shortens a file's buffer; and an inode that a successful    *)
(* unlink, rmdir or rename leaves without any entry keeps its slot exactly *)
(* as it was.                                                              *)
(***************************************************************************)
C27_NoTombstones ==
    /\ [](\A i \in 1..(Len(inodes) - 1) :
              /\ IsLive(inodes, i)
              /\ last = Idle => StillServed(inodes, i))
    /\ [][\A i \in 1..(Len(inodes) - 1) :
              /\ IsLive(inodes', i)
              /\ Slot(inodes', i).val.entry.type = Slot(inodes, i).val.entry.type
              /\ i \in LiveFiles(inodes) =>
                    Len(Slot(inodes', i).val.entry.contents)
                        >= Len(Slot(inodes, i).val.entry.contents)
              /\ (/\ last'.op \in {"unlink", "rmdir", "rename"}
                  /\ last'.reply = ReplyOk
                  /\ i \in Referenced(inodes) \ Referenced(inodes')) =>
                    Slot(inodes', i) = Slot(inodes, i)]_vars

\* unlink has just removed the entry of a file that holds a byte written
\* earlier: the file is in no directory and still holds the byte
C27_Witness ==
    /\ last.op = "unlink" /\ last.reply = ReplyOk
    /\ \E f \in LiveFiles(inodes) \ Referenced(inodes) :
          Slot(inodes, f).val.entry.contents = <<1>>

(***************************************************************************)
(* Every kind of request: the handlers that only read, the lifecycle       *)
(* calls and the unsupported calls, next to unlink and write, which change *)
(* the table between them.  Nothing follows destroy.                       *)
(***************************************************************************)
InitCalls ==
    /\ config \in Configs
    /\ \E v \in BufferValues : ~fs(config, v).panic /\ inodes = fs(config, v).inodes
    /\ last = Idle

Lookup ==
    /\ last = Idle
    /\ \E parent \in Inums(inodes), name \in OsNames :
          Handle("lookup", lookup(config, inodes, parent, name))

Getattr ==
    /\ last = Idle
    /\ \E ino \in Inums(inodes) : Handle("getattr", getattr(config, inodes, ino))

ReaddirCall ==
    /\ last = Idle
    /\ \E ino \in Inums(inodes), offset \in 0..3, capacity \in Capacities :
          \E order \in OrdersOf(inodes, ino) :
              Handle("readdir", readdir(inodes, ino, offset, order, capacity))

Statfs ==
    /\ last = Idle
    /\ \E ino \in Inums(inodes) : Handle("statfs", statfs(inodes, ino))

Open ==
    /\ last = Idle
    /\ \E ino \in Inums(inodes) : Handle("open", open(inodes, ino))

Opendir ==
    /\ last = Idle
    /\ \E ino \in Inums(inodes) : Handle("opendir", opendir(inodes, ino))

Release ==
    /\ last = Idle
    /\ \E ino \in Inums(inodes) : Handle("release", release(inodes, ino))

Releasedir ==
    /\ last = Idle
    /\ \E ino \in Inums(inodes) : Handle("releasedir", releasedir(inodes, ino))

Fsync ==
    /\ last = Idle
    /\ \E ino \in Inums(inodes) : Handle("fsync", fsync(inodes, ino))

Forget ==
    /\ last = Idle
    /\ \E ino \in Inums(inodes) : Handle("forget", forget(inodes, ino))

Destroy ==
    /\ last = Idle
    /\ Handle("destroy", destroy(inodes))

\* what each unsupported call leaves behind
UnsupportedCalls(t) ==
    [create |-> create(t), setattr |-> setattr(t), flush |-> flush(t),
     fsyncdir |-> fsyncdir(t), readlink |-> readlink(t), symlink |-> symlink(t),
     link |-> link(t), readdirplus |-> readdirplus(t), setxattr |-> setxattr(t),
     getxattr |-> getxattr(t), listxattr |-> listxattr(t),
     removexattr |-> removexattr(t), getlk |-> getlk(t), setlk |-> setlk(t),
     bmap |-> bmap(t), lseek |-> lseek(t), copy_file_range |-> copy_file_range(t),
     ioctl |-> ioctl(t)]
UnsupportedOps == DOMAIN UnsupportedCalls(<<>>)

Unsupported ==
    /\ last = Idle
    /\ \E op \in UnsupportedOps : Handle(op, UnsupportedCalls(inodes)[op])

\* the next request, unless the file system has been unmounted
NextCall == last.op # "destroy" /\ NextRequest

NextCalls ==
    \/ Unlink
    \/ Write
    \/ Lookup
    \/ Getattr
    \/ Access
    \/ Read
    \/ ReaddirCall
    \/ Statfs
    \/ Open
    \/ Opendir
    \/ Release
    \/ Releasedir
    \/ Fsync
    \/ Forget
    \/ Destroy
    \/ Unsupported
    \/ NextCall

SpecCalls == InitCalls /\ [][NextCalls]_vars

ReadSideOps ==
    {"lookup", "getattr", "access", "read", "readdir", "statfs", "open", "opendir",
     "release", "releasedir", "fsync", "destroy"}

(***************************************************************************)
(* C28: a step that handles lookup, getattr, access, read, readdir,        *)
(* statfs, open, opendir, release, releasedir, fsync or destroy leaves the *)
(* table as it was; a step that handles one of the unsupported calls does  *)
(* too and replies ENOSYS; and open, opendir, release and releasedir reply *)
(* with success for every inode number, one past the end of the table and  *)
(* the empty slot 0 included.                                              *)
(***************************************************************************)
C28_ReadSideFrame ==
    /\ [](last = Idle =>
             \A ino \in Inums(inodes) :
                 /\ open(inodes, ino) = Result(inodes, ReplyOpened(0, 0))
                 /\ opendir(inodes, ino) = Result(inodes, ReplyOpened(0, 0))
                 /\ release(inodes, ino) = Result(inodes, ReplyOk)
                 /\ releasedir(inodes, ino) = Result(inodes, ReplyOk))
    /\ [][/\ last'.op \in ReadSideOps => inodes' = inodes
          /\ last'.op \in UnsupportedOps =>
                inodes' = inodes /\ last'.reply = ReplyError("ENOSYS")]_vars

\* fsync has replied ok while the table holds a file that unlink has left
\* in no directory, and the file is still there
C28_Witness ==
    /\ last.op = "fsync" /\ last.reply = ReplyOk
    /\ LiveFiles(inodes) \ Referenced(inodes) # {}

\* the inodes that n steps along child entries reach from the inodes in S
RECURSIVE Descend(_, _, _)
Descend(t, S, n) ==
    IF n = 0 THEN S
    ELSE Descend(t, S \cup UNION {{FilesOf(t, d)[x].inum : x \in DOMAIN FilesOf(t, d)} :
                                      d \in S \cap LiveDirs(t)}, n - 1)
ReachableFromRoot(t) == Descend(t, {FUSE_ROOT_ID}, Len(t))
\* the inode that n steps along parent fields lead to from inode i
RECURSIVE Ascend(_, _, _)
Ascend(t, i, n) ==
    IF n = 0 \/ i = FUSE_ROOT_ID \/ ~IsLive(t, i) THEN i
    ELSE Ascend(t, Slot(t, i).val.parent, n - 1)

(***************************************************************************)
(* C29: in every reachable state every inode that some directory entry     *)
(* refers to is reached from the root along child entries, and following   *)
(* parent fields from it arrives at inode 1.                               *)
(***************************************************************************)
C29_TreeRootedAtOne ==
    \A i \in Referenced(inodes) :
        /\ i \in ReachableFromRoot(inodes)
        /\ Ascend(inodes, i, Len(inodes)) = FUSE_ROOT_ID

\* the (directory, name) pairs of t whose entry refers to inode i
LinksTo(t, i) ==
    UNION {{<<d, x>> : x \in {y \in DOMAIN FilesOf(t, d) : FilesOf(t, d)[y].inum = i}} :
              d \in LiveDirs(t)}

(***************************************************************************)
(* C30: in every reachable state at most one (directory, name) pair refers *)
(* to each inode number, and no step changes an inode from file to         *)
(* directory or back, or a directory from Named to List or back.           *)
(***************************************************************************)
C30_NoHardLinks ==
    /\ [](\A i \in 0..Len(inodes) : Cardinality(LinksTo(inodes, i)) <= 1)
    /\ [][\A i \in 1..(Len(inodes) - 1) :
              (IsLive(inodes, i) /\ IsLive(inodes', i)) =>
                  /\ Slot(inodes', i).val.entry.type = Slot(inodes, i).val.entry.type
                  /\ Slot(inodes, i).val.entry.type = "Directory" =>
                        Slot(inodes', i).val.entry.dirtype
                            = Slot(inodes, i).val.entry.dirtype]_vars

\* rename has replaced an existing entry by the moved one: the target name
\* is the only link to the moved inode, and the replaced inode has none
C30_Witness ==
    /\ last.op = "rename" /\ last.reply = ReplyOk
    /\ \E i \in 2..(Len(inodes) - 1), j \in 2..(Len(inodes) - 1) :
          /\ i # j
          /\ Cardinality(LinksTo(inodes, i)) = 1
          /\ LinksTo(inodes, j) = {}
          /\ Slot(inodes, i).val.entry.type = Slot(inodes, j).val.entry.type

(***************************************************************************)
(* Removals: a mounted document whose entries are unlinked, removed,       *)
(* renamed over one another, written and extended; nothing is created.     *)
(***************************************************************************)
\* {"a": null, "0": null} and {"a": {}, "0": {}}
RemovalValues ==
    {VObject(<<<<"a", VNull>>, <<"0", VNull>>>>),
     VObject(<<<<"a", VObject(<<>>)>>, <<"0", VObject(<<>>)>>>>)}

InitRemovals ==
    /\ config \in Configs
    /\ \E v \in RemovalValues : ~fs(config, v).panic /\ inodes = fs(config, v).inodes
    /\ last = Idle

NextRemovals ==
    \/ Unlink
    \/ Rmdir
    \/ Rename
    \/ Write
    \/ Fallocate
    \/ NextRequest

SpecRemovals == InitRemovals /\ [][NextRemovals]_vars

====
